---- MODULE Spec2Model ----
(***************************************************************************)
(* Model of claude-langfuse-go: the change-detection -> incremental-parse  *)
(* -> deduplicate -> batch-deliver pipeline.                               *)
(*                                                                         *)
(*   langfuse.Client  (src/internal/watcher/watcher.go:155-318)            *)
(*   watcher.Watcher  (src/internal/watcher/watcher.go:1-153)              *)
(*   monitor.Monitor  (src/internal/monitor/monitor_test.go:347-774)       *)
(*   start command    (src/cmd/claude-langfuse/main.go:62-146)             *)
(*                                                                         *)
(* Strings the code inspects (paths, suffixes, separators) are sequences   *)
(* of one-character strings, so that Split, HasSuffix, TrimSuffix and      *)
(* ReplaceAll are computed as the code computes them.                      *)
(***************************************************************************)
EXTENDS Integers, Sequences, FiniteSets, TLC

(***************************************************************************)
(* Bounds of the model.                                                    *)
(***************************************************************************)
\* API-level CreateTrace/CreateGeneration calls made in SpecClient
MaxEnqueues == 11
\* concurrent API callers of the client in SpecClient (besides the flush timer)
MaxCallers == 1
\* CreateGeneration calls among them (the others are CreateTrace calls)
MaxGenerations == 2

\* ticks of the debounce ticker after which the clock of SpecWatcher stops
MaxTicks == 8
\* filesystem events recorded in pendingFiles in SpecWatcher
MaxEvents == 3
\* goroutines that run ProcessMessage concurrently in SpecMonitor
MaxReaders == 2
\* calls of Watcher.Close in SpecWatcher
MaxCloses == 2
\* blocks in the content array of a payload
MaxBlocks == 2
\* events the watcher takes w.mu for in SpecLocks
MaxLockEvents == 1
\* events the callbacks enqueue in SpecMain
MaxMainEvents == 2

(***************************************************************************)
(* Program constants.                                                      *)
(***************************************************************************)
\* NewClient: batchSize: 10
BatchSize == 10
\* watcher.New: debounceMs: 500 * time.Millisecond
DebounceMs == 500
\* processPendingFiles: time.NewTicker(100 * time.Millisecond)
TickMs == 100

(***************************************************************************)
(* Execution units (goroutines).                                           *)
(***************************************************************************)
NoUnit == <<"none", 0>>
\* a goroutine that calls the client's exported methods
Caller(i) == <<"caller", i>>
Callers == {Caller(i) : i \in 1..MaxCallers}
\* the flush ticker goroutine of the start command
TimerUnit == <<"timer", 0>>
ClientUnits == Callers \cup {TimerUnit}
\* a goroutine that processes conversation entries (a dispatched callback)
Reader(i) == <<"reader", i>>
Readers == {Reader(i) : i \in 1..MaxReaders}
\* the goroutine of the start command
MainUnit == <<"main", 0>>
Units == ClientUnits \cup Readers \cup {MainUnit}

VARIABLES
    events,     \* Client.events: the outbound buffer
    cmu,        \* Client.mu: the unit holding it, or NoUnit
    call,       \* per unit: its call into the client (position, locals)
    ret,        \* history: the call into the client that returned last
    accepted,   \* the endpoint: events of the batches answered with status < 400
    enqLog      \* history: every event appended to Client.events, in order

clientVars == <<events, cmu, call, ret, accepted, enqLog>>

VARIABLES
    now,          \* the wall clock (time.Now), in milliseconds since Start
    started,      \* Watcher.Start has returned nil
    closed,       \* Watcher.Close has run: done and the fsnotify watcher are closed
    evLoop,       \* the processEvents goroutine: "none" | "running" | "exited"
    scanLoop,     \* the processPendingFiles goroutine: likewise
    watched,      \* directories registered with the fsnotify watcher
    pendingFiles, \* Watcher.pendingFiles: path -> time of its last event
    lastEv,       \* history: path -> time of the last event recorded for it, or -1
    reset,        \* history: path -> an event of its current burst reset the timer
    nBursts,      \* history: path -> bursts of recorded events so far
    nCb,          \* history: path -> callbacks dispatched (go w.callback(path))
    nEv,          \* history: events recorded in pendingFiles so far
    rootSeen,     \* history: what Start found at the root path, or "none"
    startRet,     \* history: what Start returned: "none" | "nil" | "error"
    nClose,       \* history: calls of Close so far
    nDoneClose    \* history: executions of close(w.done) so far

startVars == <<rootSeen, startRet>>
closeVars == <<nClose, nDoneClose>>

watcherVars == <<now, started, closed, evLoop, scanLoop, watched, pendingFiles,
                 lastEv, reset, nBursts, nCb, nEv, startVars, closeVars>>

VARIABLES
    mmu,                  \* Monitor.mu: the unit holding it, or NoUnit
    processedMessages,    \* Monitor.processedMessages: the ids marked true
    conversationSessions, \* Monitor.conversationSessions: file path -> session id
    messageCount,         \* Monitor.messageCount: [user, assistant]
    rd,                   \* per reader: its position in ProcessMessage, its arguments
    inserted,             \* history: id -> insertions into processedMessages
    counted,              \* history: id -> counter increments made for entries with it
    lastPM                \* history: the ProcessMessage call made last, and its disposal

monitorVars == <<mmu, processedMessages, conversationSessions, messageCount, rd,
                 inserted, counted, lastPM>>

VARIABLES
    pcf,      \* per reader: its position in ProcessConversationFile, its locals
    lastRet   \* history: how the ProcessConversationFile call that returned
              \* last has ended

readerVars == <<pcf, lastRet>>

VARIABLES
    flushLoop,   \* the flush ticker goroutine: "none" | "running" | "exited"
    tickerDone,  \* close(done) and flushTicker.Stop() have run
    nFinal,      \* history: calls of mon.Shutdown made by the shutdown path
    finalRet,    \* history: what the flush of Shutdown returned, or "none"
    exited       \* the start command has returned

mainVars == <<flushLoop, tickerDone, nFinal, finalRet, exited>>

VARIABLES
    nRet         \* history: callbacks of each path that have returned

cbVars == <<nRet>>

VARIABLES
    disk,        \* the first log on disk: [appended, gone]; appended is "no",
                 \* or history: "early" | "after", whether the lines were
                 \* appended after the file had been processed; gone is
                 \* "no", or history: "pending" | "other", whether the file
                 \* was deleted while its debounce entry was pending
    replayDone,  \* ProcessExistingHistory has returned
    nReplay      \* history: events enqueued when it returned

liveVars == <<disk, replayDone, nReplay>>

VARIABLES
    rawMessage,  \* the payload extractContent was called with
    text         \* what it returned, or Unset while it runs

extractVars == <<rawMessage, text>>

VARIABLES
    wmu,         \* Watcher.mu: the loop holding it, or NoUnit
    held         \* the event the processEvents goroutine took w.mu for

lockVars == <<wmu, held>>

vars == <<clientVars, watcherVars, monitorVars, readerVars, mainVars, cbVars,
          liveVars, extractVars, lockVars>>

(***************************************************************************)
(* langfuse.Event, Trace, Generation.  A field tagged omitempty that the   *)
(* body type does not have is the empty string.  A session id is a         *)
(* sequence of characters.                                                 *)
(***************************************************************************)
Trace(id, sessionId, timestamp) ==
    [id |-> id, sessionId |-> sessionId, timestamp |-> timestamp]
Generation(id, traceId, startTime, endTime) ==
    [id |-> id, traceId |-> traceId, startTime |-> startTime,
     endTime |-> endTime]

\* time.Now(): a reading of the clock
TimeNow == "now"

\* CreateTrace: Event{Type: "trace-create", Body: trace}
TraceEvent(trace) ==
    [type |-> "trace-create", id |-> trace.id,
     sessionId |-> trace.sessionId, traceId |-> "",
     timestamp |-> trace.timestamp, startTime |-> "", endTime |-> ""]

\* CreateGeneration: Event{Type: "generation-create", Body: gen}
GenerationEvent(gen) ==
    [type |-> "generation-create", id |-> gen.id,
     sessionId |-> <<>>, traceId |-> gen.traceId,
     timestamp |-> "", startTime |-> gen.startTime, endTime |-> gen.endTime]

(***************************************************************************)
(* The HTTP exchange of flushLocked: httpClient.Do returns a transport     *)
(* error (which includes the 30 s timeout) or a response with a status.    *)
(***************************************************************************)
NoOutcome == [err |-> FALSE, status |-> 0]
TransportError == [err |-> TRUE, status |-> 0]
Outcomes == {TransportError} \cup
            {[err |-> FALSE, status |-> s] : s \in {200, 399, 400}}

\* flushLocked: err != nil, or resp.StatusCode >= 400
FlushFailedErrOnly(outcome) == outcome.err
FlushFailedMut(outcome) == outcome.err \/ outcome.status >= 300
FlushFailed(outcome) == outcome.err \/ outcome.status >= 400

\* flushLocked, after the response: c.events = c.events[:0] on success only
EventsAfterResponseMut(buf, outcome) == <<>>
EventsAfterResponse(buf, outcome) ==
    IF FlushFailed(outcome) THEN buf ELSE <<>>

(***************************************************************************)
(* A unit's call into the client, while it is inside httpClient.Do with    *)
(* c.mu held (st = "post"); a unit that is not inside the client is idle.  *)
(*   op      "CreateTrace" | "CreateGeneration" | "Flush"                  *)
(*   n       len(c.events) when flushLocked was entered                    *)
(*   batch   the "batch" of the serialized payload                         *)
(* ret records the call that returned last:                                *)
(*   unit, op  who called what                                             *)
(*   n       len(c.events) after the call's append (Create calls) or on    *)
(*           entry (Flush)                                                 *)
(*   flushed flushLocked was entered                                       *)
(*   nposts  POSTs issued by the call                                      *)
(*   outcome what httpClient.Do returned                                   *)
(*   err     the call returned a non-nil error                             *)
(*   after   len(c.events) when the call released the lock                 *)
(***************************************************************************)
IdleCall == [st |-> "idle", op |-> "none", n |-> 0, batch |-> <<>>]

NoRet ==
    [unit |-> NoUnit, op |-> "none", n |-> 0, flushed |-> FALSE, nposts |-> 0,
     outcome |-> NoOutcome, err |-> FALSE, after |-> 0]

\* a reader that is not inside ProcessMessage
NoEntry == [type |-> "none", uuid |-> "", parentUuid |-> "", timestamp |-> ""]
IdleReader == [pc |-> "idle", entry |-> NoEntry, sessionID |-> <<>>]

\* CreateTrace / CreateGeneration: len(c.events) >= c.batchSize
ThresholdReachedMut(buf) == Len(buf) > BatchSize
ThresholdReached(buf) == Len(buf) >= BatchSize

\* flushLocked: len(c.events) == 0 returns nil without a request
NothingToFlushMut(buf) == FALSE
NothingToFlush(buf) == Len(buf) = 0

\* flushLocked, entered by unit u with the lock held and c.events = buf:
\* an empty buffer returns nil at once; otherwise the whole buffer is
\* serialized and posted, and the unit waits for the response holding c.mu.
FlushLockedUnlocked(u, op, buf) ==
    IF NothingToFlush(buf)
    THEN /\ call' = [call EXCEPT ![u] = IdleCall]
         /\ ret' = [NoRet EXCEPT !.unit = u, !.op = op, !.n = Len(buf),
                                 !.flushed = TRUE, !.after = Len(buf)]
         /\ cmu' = NoUnit
    ELSE /\ call' = [call EXCEPT ![u] =
                        [st |-> "post", op |-> op, n |-> Len(buf), batch |-> buf]]
         /\ ret' = ret
         /\ cmu' = NoUnit
FlushLocked(u, op, buf) ==
    IF NothingToFlush(buf)
    THEN /\ call' = [call EXCEPT ![u] = IdleCall]
         /\ ret' = [NoRet EXCEPT !.unit = u, !.op = op, !.n = Len(buf),
                                 !.flushed = TRUE, !.after = Len(buf)]
         /\ cmu' = NoUnit
    ELSE /\ call' = [call EXCEPT ![u] =
                        [st |-> "post", op |-> op, n |-> Len(buf), batch |-> buf]]
         /\ ret' = ret
         /\ cmu' = u

\* CreateTrace / CreateGeneration by unit u: lock, append, auto-flush when
\* the batch size is reached, else return nil (the deferred Unlock runs).
Enqueue(u, op, ev) ==
    /\ call[u].st = "idle"
    /\ cmu = NoUnit
    /\ LET buf == Append(events, ev)
       IN /\ events' = buf
          /\ enqLog' = Append(enqLog, ev)
          /\ IF ThresholdReached(buf)
             THEN FlushLocked(u, op, buf)
             ELSE /\ call' = [call EXCEPT ![u] = IdleCall]
                  /\ ret' = [NoRet EXCEPT !.unit = u, !.op = op,
                                          !.n = Len(buf), !.after = Len(buf)]
                  /\ cmu' = NoUnit
    /\ UNCHANGED accepted

\* Client.Flush by unit u: lock, flushLocked.
Flush(u) ==
    /\ call[u].st = "idle"
    /\ cmu = NoUnit
    /\ FlushLocked(u, "Flush", events)
    /\ UNCHANGED <<events, accepted, enqLog>>

\* flushLocked resumes when httpClient.Do returns: an error or a status
\* >= 400 returns an error and leaves c.events alone; otherwise the buffer
\* is cleared.  The deferred Unlock runs on return.
HttpResponse(u, outcome) ==
    /\ call[u].st = "post"
    /\ cmu = u
    /\ events' = EventsAfterResponse(events, outcome)
    /\ accepted' = IF ~outcome.err /\ outcome.status < 400
                   THEN accepted \o call[u].batch
                   ELSE accepted
    /\ call' = [call EXCEPT ![u] = IdleCall]
    /\ ret' = [unit |-> u, op |-> call[u].op, n |-> call[u].n,
               flushed |-> TRUE, nposts |-> 1, outcome |-> outcome,
               err |-> FlushFailed(outcome),
               after |-> Len(EventsAfterResponse(events, outcome))]
    /\ cmu' = NoUnit
    /\ UNCHANGED enqLog

(***************************************************************************)
(* SpecClient: the delivery client under arbitrary callers of its exported *)
(* methods and the flush ticker of the start command.                      *)
(***************************************************************************)
Generations(log) == {i \in 1..Len(log) : log[i].type = "generation-create"}

\* a caller builds a trace and calls CreateTrace
CreateTrace(u) ==
    /\ UNCHANGED <<watcherVars, monitorVars, readerVars, mainVars, cbVars, liveVars, extractVars, lockVars>>
    /\ Len(enqLog) < MaxEnqueues
    /\ Enqueue(u, "CreateTrace", TraceEvent(Trace(Len(enqLog) + 1, <<"s">>, TimeNow)))

\* a caller builds a generation and calls CreateGeneration
CreateGeneration(u) ==
    /\ UNCHANGED <<watcherVars, monitorVars, readerVars, mainVars, cbVars, liveVars, extractVars, lockVars>>
    /\ Len(enqLog) < MaxEnqueues
    /\ Cardinality(Generations(enqLog)) < MaxGenerations
    /\ Enqueue(u, "CreateGeneration",
               GenerationEvent(Generation(Len(enqLog) + 1, "t", TimeNow, TimeNow)))

\* a caller calls Flush
CallerFlush(u) ==
    /\ Flush(u)
    /\ UNCHANGED <<watcherVars, monitorVars, readerVars, mainVars, cbVars, liveVars, extractVars, lockVars>>

\* the ticker goroutine: case <-flushTicker.C: mon.Flush()
TimerFlush ==
    /\ Flush(TimerUnit)
    /\ UNCHANGED <<watcherVars, monitorVars, readerVars, mainVars, cbVars, liveVars, extractVars, lockVars>>

\* ProcessMessage, after CreateTrace / CreateGeneration have returned: an
\* error is printed, and the call returns
AfterCreateMut(frames, u, err) ==
    IF err THEN frames
    ELSE [r \in DOMAIN frames |-> IF r = u THEN IdleReader ELSE frames[r]]
AfterCreate(frames, u, err) ==
    [r \in DOMAIN frames |-> IF r = u THEN IdleReader ELSE frames[r]]

\* httpClient.Do returns; a caller or the ticker goroutine drops the
\* result, a reader's ProcessMessage at most reports it and returns
HttpReturns(u, outcome) ==
    /\ HttpResponse(u, outcome)
    /\ rd' = AfterCreate(rd, u, FlushFailed(outcome))
    /\ UNCHANGED <<mmu, processedMessages, conversationSessions, messageCount,
                   inserted, counted, lastPM>>
    /\ UNCHANGED <<watcherVars, readerVars, mainVars, cbVars, liveVars, extractVars, lockVars>>

ClientInit ==
    /\ events = <<>>
    /\ cmu = NoUnit
    /\ call = [u \in Units |-> IdleCall]
    /\ ret = NoRet
    /\ accepted = <<>>
    /\ enqLog = <<>>


NextClient ==
    \/ \E u \in Callers : CreateTrace(u)
    \/ \E u \in Callers : CreateGeneration(u)
    \/ \E u \in Callers : CallerFlush(u)
    \/ TimerFlush
    \/ \E u \in ClientUnits, o \in Outcomes : HttpReturns(u, o)

(***************************************************************************)
(* Strings as sequences of characters.                                     *)
(***************************************************************************)
\* strings.HasSuffix
HasSuffix(s, suffix) ==
    /\ Len(s) >= Len(suffix)
    /\ SubSeq(s, Len(s) - Len(suffix) + 1, Len(s)) = suffix

\* os.PathSeparator
PathSeparator == "/"

\* the log-file suffix ".jsonl"
JsonlSuffix == <<".", "j", "s", "o", "n", "l">>

\* the watched root and the paths events are reported for
RootDir == <<"/", "p", "r", "o", "j", "e", "c", "t", "s">>
ProjectDir == RootDir \o <<"/", "a", "-", "b">>
\* two conversation logs
PathA == ProjectDir \o <<"/", "c", "1">> \o JsonlSuffix
PathB == ProjectDir \o <<"/", "c", "2">> \o JsonlSuffix
\* a file that is no log
PathTxt == ProjectDir \o <<"/", "n", ".", "t", "x", "t">>
\* a directory whose name ends in .jsonl
PathDir == RootDir \o <<"/", "d">> \o JsonlSuffix

Directories == {RootDir, ProjectDir, PathDir}
EventNames == {PathA, PathB, PathTxt, PathDir}

\* fsnotify.Op values an event can carry
Ops == {{"Create"}, {"Write"}, {"Create", "Write"}, {"Remove"}, {"Rename"},
        {"Chmod"}}

(***************************************************************************)
(* watcher.Watcher                                                         *)
(***************************************************************************)
\* processEvents: os.Stat(event.Name) succeeds and reports a directory
IsDir(name) == name \in Directories

\* processEvents: the event is a Create of a directory, which is registered
\* and handled no further
IsNewDirectory(name, op) == "Create" \in op /\ IsDir(name)

\* processEvents: the event is recorded in pendingFiles: a .jsonl name and
\* a Write or Create op
QualifiesMut(name, op) == HasSuffix(name, JsonlSuffix)
Qualifies(name, op) ==
    /\ HasSuffix(name, JsonlSuffix)
    /\ ("Write" \in op \/ "Create" \in op)

\* w.pendingFiles[event.Name] = time.Now()
RecordEventMut(pending, name, t) ==
    IF name \in DOMAIN pending THEN pending
    ELSE [q \in DOMAIN pending \cup {name} |-> IF q = name THEN t ELSE pending[q]]
RecordEvent(pending, name, t) ==
    [q \in DOMAIN pending \cup {name} |-> IF q = name THEN t ELSE pending[q]]

\* processPendingFiles: now.Sub(lastChange) >= w.debounceMs
SettledMut(t, lastChange) == t - lastChange >= TickMs
Settled(t, lastChange) == t - lastChange >= DebounceMs

\* processPendingFiles: the paths the scan at time t dispatches
SettledPaths(pending, t) ==
    {q \in DOMAIN pending : Settled(t, pending[q])}

\* processPendingFiles: delete(w.pendingFiles, file) for every settled path
AfterScanMut(pending, t) == pending
AfterScan(pending, t) ==
    [q \in DOMAIN pending \ SettledPaths(pending, t) |-> pending[q]]

\* what Start can find at the root path
RootStates == {"ok", "missing", "unreadable"}

\* addRecursive: filepath.Walk hands every error, that of the root included,
\* to the walk function, which returns nil for it ("Skip errors"), and an
\* error of w.watcher.Add is ignored: addRecursive returns no error
AddRecursiveFails(root) == FALSE

\* addRecursive: the directories registered: the root, when it can be
\* walked, and each directory under it whose registration succeeds
Registered(root, subOk) ==
    IF root # "ok" THEN {}
    ELSE IF subOk THEN {RootDir, ProjectDir}
    ELSE {RootDir}

\* Watcher.Start: addRecursive, whose error is returned; then both loops
\* are started and nil is returned.
Start(root, subOk) ==
    /\ ~started
    /\ ~closed
    /\ startRet = "none"
    /\ rootSeen' = root
    /\ IF AddRecursiveFails(root)
       THEN /\ startRet' = "error"
            /\ UNCHANGED <<started, watched, evLoop, scanLoop>>
       ELSE /\ startRet' = "nil"
            /\ started' = TRUE
            /\ watched' = Registered(root, subOk)
            /\ evLoop' = "running"
            /\ scanLoop' = "running"
    /\ UNCHANGED <<now, closed, pendingFiles, lastEv, reset, nBursts, nCb, nEv,
                   closeVars>>
    /\ UNCHANGED <<clientVars, monitorVars, readerVars, mainVars, cbVars, liveVars, extractVars, lockVars>>

\* filepath.Dir: the path up to its last separator
Dir(path) ==
    LET seps == {i \in 1..Len(path) : path[i] = PathSeparator}
    IN IF seps = {} THEN <<".">>
       ELSE SubSeq(path, 1, (CHOOSE i \in seps : \A j \in seps : j <= i) - 1)

\* processPendingFiles: go w.callback(file) starts the callback on its own
\* goroutine; the scan loop, which holds w.mu, does not run it and does not
\* wait for it
ScanWaitsMut(ncb, nret) == \E q \in DOMAIN ncb : nret[q] < ncb[q]
ScanWaits(ncb, nret) == FALSE

\* processEvents, case event := <-w.watcher.Events: the event is handled, a
\* qualifying one by writing pendingFiles under w.mu
ProcessEvent(name, op) ==
    /\ evLoop = "running"
    /\ ~closed
    /\ Dir(name) \in watched
    /\ IF IsNewDirectory(name, op)
       THEN /\ watched' = watched \cup {name}
            /\ UNCHANGED <<pendingFiles, lastEv, reset, nBursts, nEv>>
       ELSE /\ watched' = watched
            /\ IF Qualifies(name, op)
               THEN /\ ~ScanWaits(nCb, nRet)
                    /\ nEv < MaxEvents
                    /\ nEv' = nEv + 1
                    /\ pendingFiles' = RecordEvent(pendingFiles, name, now)
                    /\ lastEv' = [lastEv EXCEPT ![name] = now]
                    /\ LET fresh == lastEv[name] < 0
                                    \/ now - lastEv[name] >= DebounceMs
                       IN /\ nBursts' = [nBursts EXCEPT ![name] =
                                            IF fresh THEN @ + 1 ELSE @]
                          /\ reset' = [reset EXCEPT ![name] =
                                          IF fresh THEN FALSE
                                          ELSE @ \/ now > lastEv[name]]
               ELSE UNCHANGED <<pendingFiles, lastEv, reset, nBursts, nEv>>
    /\ UNCHANGED <<now, started, closed, evLoop, scanLoop, nCb, startVars,
                   closeVars>>
    /\ UNCHANGED <<clientVars, monitorVars, readerVars, mainVars, cbVars, liveVars, extractVars>>

\* processEvents handles an event, with the critical section as one step
FsEvent(name, op) ==
    /\ ProcessEvent(name, op)
    /\ UNCHANGED lockVars

\* One period of the ticker passes.  While processPendingFiles runs, it
\* takes case <-ticker.C: under w.mu every settled path is deleted from
\* pendingFiles and handed to its own goroutine (go w.callback(file)).
ScanTick ==
    /\ started
    /\ now < MaxTicks * TickMs
    /\ now' = now + TickMs
    /\ IF scanLoop = "running" /\ ~ScanWaits(nCb, nRet)
       THEN LET go == SettledPaths(pendingFiles, now')
            IN /\ pendingFiles' = AfterScan(pendingFiles, now')
               /\ nCb' = [q \in DOMAIN nCb |-> IF q \in go THEN nCb[q] + 1
                                               ELSE nCb[q]]
       ELSE UNCHANGED <<pendingFiles, nCb>>
    /\ UNCHANGED <<started, closed, evLoop, scanLoop, watched, lastEv, reset,
                   nBursts, nEv, startVars, closeVars>>
    /\ UNCHANGED <<clientVars, monitorVars, readerVars, mainVars, cbVars, liveVars, extractVars>>

\* a period of the ticker, with the scan under w.mu as one step
Tick ==
    /\ ScanTick
    /\ UNCHANGED lockVars

\* w.closeOnce.Do(func() { close(w.done) }): the executions of close(w.done)
\* after a call, given those before it
OnceDoMut(n) == n + 1
OnceDo(n) == IF n = 0 THEN 1 ELSE n

\* Watcher.Close: closeOnce closes done; the fsnotify watcher is closed,
\* which a second call finds closed already.
Close ==
    /\ started
    /\ nClose < MaxCloses
    /\ nClose' = nClose + 1
    /\ nDoneClose' = OnceDo(nDoneClose)
    /\ closed' = TRUE
    /\ UNCHANGED <<now, started, evLoop, scanLoop, watched, pendingFiles,
                   lastEv, reset, nBursts, nCb, nEv, startVars>>
    /\ UNCHANGED <<clientVars, monitorVars, readerVars, mainVars, cbVars, liveVars, extractVars, lockVars>>

\* processEvents returns: Events is closed, or case <-w.done
EventLoopExit ==
    /\ evLoop = "running"
    /\ closed
    /\ evLoop' = "exited"
    /\ UNCHANGED <<now, started, closed, scanLoop, watched, pendingFiles,
                   lastEv, reset, nBursts, nCb, nEv, startVars, closeVars>>
    /\ UNCHANGED <<clientVars, monitorVars, readerVars, mainVars, cbVars, liveVars, extractVars, lockVars>>

\* processPendingFiles returns: case <-w.done
ScanLoopExit ==
    /\ scanLoop = "running"
    /\ closed
    /\ scanLoop' = "exited"
    /\ UNCHANGED <<now, started, closed, evLoop, watched, pendingFiles,
                   lastEv, reset, nBursts, nCb, nEv, startVars, closeVars>>
    /\ UNCHANGED <<clientVars, monitorVars, readerVars, mainVars, cbVars, liveVars, extractVars, lockVars>>

\* a callback that was started returns, after any length of time
CallbackReturn(q) ==
    /\ nRet[q] < nCb[q]
    /\ nRet' = [nRet EXCEPT ![q] = @ + 1]
    /\ UNCHANGED <<clientVars, watcherVars, monitorVars, readerVars, mainVars, liveVars, extractVars, lockVars>>

\* watcher.New
WatcherInit ==
    /\ now = 0
    /\ started = FALSE
    /\ closed = FALSE
    /\ evLoop = "none"
    /\ scanLoop = "none"
    /\ watched = {}
    /\ pendingFiles = << >>
    /\ lastEv = [q \in EventNames |-> -1]
    /\ reset = [q \in EventNames |-> FALSE]
    /\ nBursts = [q \in EventNames |-> 0]
    /\ nCb = [q \in EventNames |-> 0]
    /\ nEv = 0
    /\ rootSeen = "none"
    /\ startRet = "none"
    /\ nClose = 0
    /\ nDoneClose = 0
    /\ nRet = [q \in EventNames |-> 0]

NextWatcher ==
    \/ \E root \in RootStates, subOk \in BOOLEAN : Start(root, subOk)
    \/ \E name \in EventNames, op \in Ops : FsEvent(name, op)
    \/ Tick
    \/ Close
    \/ EventLoopExit
    \/ ScanLoopExit

\* the watcher with callbacks that return after any length of time
NextDispatch ==
    \/ NextWatcher
    \/ \E q \in EventNames : CallbackReturn(q)

(***************************************************************************)
(* monitor.Monitor: ProcessMessage                                         *)
(***************************************************************************)
\* startCommand: monitor.Options{DryRun: false}; monitor.New then creates
\* the client
DryRun == FALSE

\* Entry: the fields ProcessMessage decides on
EntryTypes == {"user", "assistant", "system"}
UUIDs == {"", "m1", "m2"}
\* the ids that occur in the conversation files
FileUUIDs == {"", "m1", "m2", "m3", "m4", "m5", "n1", "e1", "e2", "e3", "e4", "e5", "e6",
              "e7", "e8", "e9", "e10", "e11"}
AllUUIDs == UUIDs \cup FileUUIDs
Entries == [type : EntryTypes, uuid : UUIDs, parentUuid : {"m0"},
            timestamp : {"T1"}]

\* the sessionID argument of ProcessMessage in SpecMonitor (SpecReader passes
\* the session ids computed from the paths)
SessionIDs == {<<"s", "1">>}

\* ProcessMessage: msgType != "user" && msgType != "assistant"
IgnoredTypeMut(entry) == FALSE
IgnoredType(entry) == entry.type # "user" /\ entry.type # "assistant"

\* ProcessMessage: uuid == ""
NoUUIDMut(entry) == FALSE
NoUUID(entry) == entry.uuid = ""

\* ProcessMessage: m.processedMessages[uuid]
AlreadyProcessedMut(processed, uuid) == FALSE
AlreadyProcessed(processed, uuid) == uuid \in processed

\* ProcessMessage: m.processedMessages[uuid] = true
MarkProcessedMut(processed, uuid) == processed
MarkProcessed(processed, uuid) == processed \cup {uuid}

\* ProcessMessage: messageCount.user++ or messageCount.assistant++
Increment(count, type) ==
    IF type = "user" THEN [count EXCEPT !.user = @ + 1]
    ELSE [count EXCEPT !.assistant = @ + 1]

\* the timestamp strings that time.Parse(time.RFC3339, s) accepts
RFC3339 == {"T1", "T2"}

\* ProcessMessage: timestamp := time.Now(), replaced by the entry's
\* timestamp where that is set and parses
TimestampOf(entry) ==
    IF entry.timestamp # "" /\ entry.timestamp \in RFC3339
    THEN entry.timestamp
    ELSE TimeNow

\* ProcessMessage: the event built for the entry: a trace for a user entry,
\* a generation under the parent's trace for an assistant entry
EventOfMut(entry, sessionID) ==
    IF entry.type = "user"
    THEN TraceEvent(Trace(entry.uuid, sessionID, TimestampOf(entry)))
    ELSE GenerationEvent(Generation(entry.uuid, entry.uuid,
                                    TimestampOf(entry), TimeNow))
EventOf(entry, sessionID) ==
    IF entry.type = "user"
    THEN TraceEvent(Trace(entry.uuid, sessionID, TimestampOf(entry)))
    ELSE GenerationEvent(Generation(entry.uuid, entry.parentUuid,
                                    TimestampOf(entry), TimestampOf(entry)))

\* ProcessMessage: the client method called for the entry
OpOf(entry) ==
    IF entry.type = "user" THEN "CreateTrace" ELSE "CreateGeneration"

\* m.mu.Lock(): the lock is free
Unlocked(holder) == holder = NoUnit

\* m.mu.Unlock() by the unit that holds the lock
UnlockDeferred(u) == u
Unlock(u) == NoUnit

\* ProcessMessage: the entry is returned for before m.mu is taken
ReturnsEarly(entry) == IgnoredType(entry) \/ NoUUID(entry)

\* how ProcessMessage disposes of an entry in its first part
Disposal(processed, entry) ==
    IF IgnoredType(entry) THEN "ignored_type"
    ELSE IF NoUUID(entry) THEN "no_uuid"
    ELSE IF AlreadyProcessed(processed, entry.uuid) THEN "duplicate"
    ELSE "passed"

\* a unit calls ProcessMessage(entry, sessionID, ...): an entry of another
\* type or without an id returns at once; otherwise the unit takes m.mu for
\* the dedup check.
ProcessMessage(u, entry, sessionID) ==
    /\ rd[u].pc = "idle"
    /\ IF ReturnsEarly(entry)
       THEN /\ lastPM' = [entry |-> entry, sessionID |-> sessionID,
                          result |-> Disposal(processedMessages, entry)]
            /\ UNCHANGED <<mmu, rd>>
       ELSE /\ Unlocked(mmu)
            /\ mmu' = u
            /\ rd' = [rd EXCEPT ![u] =
                         [pc |-> "dedup", entry |-> entry, sessionID |-> sessionID]]
            /\ UNCHANGED lastPM
    /\ UNCHANGED <<processedMessages, conversationSessions, messageCount,
                   inserted, counted>>
    /\ UNCHANGED <<clientVars, watcherVars, mainVars, cbVars, liveVars, extractVars, lockVars>>

\* ProcessMessage, first critical section: an id already marked returns,
\* any other id is marked; m.mu is released.
PMDedup(u) ==
    /\ rd[u].pc = "dedup"
    /\ mmu = u
    /\ mmu' = Unlock(u)
    /\ lastPM' = [entry |-> rd[u].entry, sessionID |-> rd[u].sessionID,
                  result |-> Disposal(processedMessages, rd[u].entry)]
    /\ IF AlreadyProcessed(processedMessages, rd[u].entry.uuid)
       THEN /\ rd' = [rd EXCEPT ![u] = IdleReader]
            /\ UNCHANGED <<processedMessages, inserted>>
       ELSE /\ processedMessages' =
                   MarkProcessed(processedMessages, rd[u].entry.uuid)
            /\ inserted' = [inserted EXCEPT ![rd[u].entry.uuid] = @ + 1]
            /\ rd' = [rd EXCEPT ![u].pc = "count"]
    /\ UNCHANGED <<conversationSessions, messageCount, counted>>
    /\ UNCHANGED <<clientVars, watcherVars, readerVars, mainVars, cbVars, liveVars, extractVars, lockVars>>

\* ProcessMessage: the content and the timestamp are extracted, then m.mu
\* is taken for the counters.
PMLock(u) ==
    /\ rd[u].pc = "count"
    /\ Unlocked(mmu)
    /\ mmu' = u
    /\ rd' = [rd EXCEPT ![u].pc = "counting"]
    /\ UNCHANGED <<processedMessages, conversationSessions, messageCount,
                   inserted, counted, lastPM>>
    /\ UNCHANGED <<clientVars, watcherVars, readerVars, mainVars, cbVars, liveVars, extractVars, lockVars>>

\* ProcessMessage, second critical section: the counter of the entry's type
\* is incremented; m.mu is released.
PMCount(u) ==
    /\ rd[u].pc = "counting"
    /\ mmu = u
    /\ mmu' = Unlock(u)
    /\ messageCount' = Increment(messageCount, rd[u].entry.type)
    /\ counted' = [counted EXCEPT ![rd[u].entry.uuid] = @ + 1]
    /\ rd' = [rd EXCEPT ![u].pc = "send"]
    /\ UNCHANGED <<processedMessages, conversationSessions, inserted, lastPM>>
    /\ UNCHANGED <<clientVars, watcherVars, readerVars, mainVars, cbVars, liveVars, extractVars, lockVars>>

\* ProcessMessage: the activity line is printed (unless quiet); in a dry
\* run the call returns; otherwise the event is built and handed to
\* CreateTrace or CreateGeneration, whose error is reported and dropped.
PMSend(u) ==
    /\ rd[u].pc = "send"
    /\ IF DryRun
       THEN /\ rd' = [rd EXCEPT ![u] = IdleReader]
            /\ UNCHANGED clientVars
       ELSE /\ Enqueue(u, OpOf(rd[u].entry), EventOf(rd[u].entry, rd[u].sessionID))
            /\ rd' = [rd EXCEPT ![u] =
                         IF call'[u].st = "post" THEN [@ EXCEPT !.pc = "post"]
                         ELSE IdleReader]
    /\ UNCHANGED <<mmu, processedMessages, conversationSessions, messageCount,
                   inserted, counted, lastPM>>
    /\ UNCHANGED <<watcherVars, readerVars, mainVars, cbVars, liveVars, extractVars, lockVars>>

\* monitor.New, with the maps of a Monitor that has processed nothing
MonitorInit ==
    /\ mmu = NoUnit
    /\ processedMessages = {}
    /\ conversationSessions = << >>
    /\ messageCount = [user |-> 0, assistant |-> 0]
    /\ rd = [r \in Readers |-> IdleReader]
    /\ inserted = [id \in AllUUIDs |-> 0]
    /\ counted = [id \in AllUUIDs |-> 0]
    /\ lastPM = [entry |-> NoEntry, sessionID |-> <<>>, result |-> "none"]

\* a goroutine calls ProcessMessage with some entry and session id
CallProcessMessage(u, entry, sessionID) ==
    /\ ProcessMessage(u, entry, sessionID)
    /\ UNCHANGED readerVars

NextMonitor ==
    \/ \E u \in Readers, e \in Entries, sid \in SessionIDs :
          CallProcessMessage(u, e, sid)
    \/ \E u \in Readers : PMDedup(u)
    \/ \E u \in Readers : PMLock(u)
    \/ \E u \in Readers : PMCount(u)
    \/ \E u \in Readers : PMSend(u)
    \/ TimerFlush
    \/ \E u \in Readers \cup {TimerUnit}, o \in Outcomes : HttpReturns(u, o)

(***************************************************************************)
(* monitor.Monitor: ProcessConversationFile                                *)
(***************************************************************************)
RECURSIVE SplitFrom(_, _, _, _, _)
SplitFrom(s, sep, i, cur, acc) ==
    IF i > Len(s) THEN Append(acc, cur)
    ELSE IF s[i] = sep THEN SplitFrom(s, sep, i + 1, <<>>, Append(acc, cur))
    ELSE SplitFrom(s, sep, i + 1, Append(cur, s[i]), acc)

\* strings.Split with a separator of one character
Split(s, sep) == SplitFrom(s, sep, 1, <<>>, <<>>)

\* strings.ReplaceAll of one character by another
ReplaceAll(s, old, new) ==
    [i \in 1..Len(s) |-> IF s[i] = old THEN new ELSE s[i]]

\* strings.TrimSuffix
TrimSuffix(s, suffix) ==
    IF HasSuffix(s, suffix) THEN SubSeq(s, 1, Len(s) - Len(suffix)) ELSE s

\* the anchor segment
Projects == <<"p", "r", "o", "j", "e", "c", "t", "s">>

\* ProcessConversationFile: the index (from 1) of the first part equal to
\* "projects", or 0 (projectsIdx + 1)
ProjectsIdx(parts) ==
    IF \E i \in 1..Len(parts) : parts[i] = Projects
    THEN CHOOSE i \in 1..Len(parts) :
            /\ parts[i] = Projects
            /\ \A j \in 1..(i - 1) : parts[j] # Projects
    ELSE 0

\* ProcessConversationFile: projectsIdx == -1 || projectsIdx >= len(parts)-2
RejectedMut(filepath) ==
    LET parts == Split(filepath, PathSeparator)
    IN \/ ProjectsIdx(parts) = 0
       \/ ProjectsIdx(parts) - 1 > Len(parts) - 2
Rejected(filepath) ==
    LET parts == Split(filepath, PathSeparator)
    IN \/ ProjectsIdx(parts) = 0
       \/ ProjectsIdx(parts) - 1 >= Len(parts) - 2

\* strings.ReplaceAll(parts[projectsIdx+1], "-", "/")
ProjectPath(filepath) ==
    LET parts == Split(filepath, PathSeparator)
    IN ReplaceAll(parts[ProjectsIdx(parts) + 1], "-", "/")

\* strings.TrimSuffix(parts[len(parts)-1], ".jsonl")
ConversationID(filepath) ==
    LET parts == Split(filepath, PathSeparator)
    IN TrimSuffix(parts[Len(parts)], JsonlSuffix)

\* fmt.Sprintf("%s:%s", projectPath, conversationID)
SessionData(projectPath, conversationID) ==
    projectPath \o <<":">> \o conversationID

\* the printable ASCII characters, from code 32 (the quote, the backslash
\* and the backquote, which no path of the model contains, by name)
Printable ==
    <<" ", "!", "quote", "#", "$", "%", "&", "'", "(", ")", "*", "+",
       ",", "-", ".", "/", "0", "1", "2", "3", "4", "5", "6", "7",
       "8", "9", ":", ";", "<", "=", ">", "?", "@", "A", "B", "C",
       "D", "E", "F", "G", "H", "I", "J", "K", "L", "M", "N", "O",
       "P", "Q", "R", "S", "T", "U", "V", "W", "X", "Y", "Z", "[",
       "backslash", "]", "^", "_", "backquote", "a", "b", "c", "d", "e", "f", "g",
       "h", "i", "j", "k", "l", "m", "n", "o", "p", "q", "r", "s",
       "t", "u", "v", "w", "x", "y", "z", "{", "|", "}", "~">>
\* the byte of a character
Byte(c) == 31 + CHOOSE i \in 1..Len(Printable) : Printable[i] = c

\* md5.Sum, abstracted to a digest of 16 bits: a function of the bytes of
\* the data and of their positions, of fixed width
DigestModulus == 65536
RECURSIVE DigestFrom(_, _, _)
DigestFrom(data, i, h) ==
    IF i > Len(data) THEN h
    ELSE DigestFrom(data, i + 1, (h * 31 + Byte(data[i])) % DigestModulus)
Md5Sum(data) == DigestFrom(data, 1, 7)

\* hex.EncodeToString of the digest: four lower-case hexadecimal digits
HexDigits == <<"0", "1", "2", "3", "4", "5", "6", "7", "8", "9",
               "a", "b", "c", "d", "e", "f">>
HexEncode(h) ==
    <<HexDigits[((h \div 4096) % 16) + 1], HexDigits[((h \div 256) % 16) + 1],
      HexDigits[((h \div 16) % 16) + 1], HexDigits[(h % 16) + 1]>>

\* ProcessConversationFile: the session id computed for a path
NewSessionIDMut(filepath) == HexEncode(Md5Sum(filepath))
NewSessionID(filepath) ==
    HexEncode(Md5Sum(SessionData(ProjectPath(filepath), ConversationID(filepath))))

\* sessionID, exists := m.conversationSessions[filepath]; if !exists { ... }
GetOrCreate(sessions, filepath) ==
    IF filepath \in DOMAIN sessions THEN sessions
    ELSE [q \in DOMAIN sessions \cup {filepath} |->
             IF q = filepath THEN NewSessionID(filepath) ELSE sessions[q]]

(***************************************************************************)
(* The conversation files on disk.  A line is blank, fails to parse        *)
(* (json.Unmarshal returns an error) or parses to an Entry.                *)
(***************************************************************************)
BlankLine == [kind |-> "blank", entry |-> NoEntry]
BadLine == [kind |-> "bad", entry |-> NoEntry]
\* the "timestamp" of the entries in the logs: a valid one, none for the
\* entry m4, and one that does not parse for the entries m5 and n1
StampOf(uuid) ==
    IF uuid = "m4" THEN ""
    ELSE IF uuid \in {"m5", "n1"} THEN "yesterday"
    ELSE IF uuid \in {"m1", "m2"} THEN "T1"
    ELSE "T2"
JsonLine(type, uuid, parentUuid) ==
    [kind |-> "json",
     entry |-> [type |-> type, uuid |-> uuid, parentUuid |-> parentUuid,
                timestamp |-> StampOf(uuid)]]

\* a log under the project directory a-b in a subdirectory: the same
\* project path and conversation id as PathA
PathSub == ProjectDir \o <<"/", "s", "/", "c", "1">> \o JsonlSuffix
\* a log that does not exist (any more)
PathGone == ProjectDir \o <<"/", "c", "3">> \o JsonlSuffix
\* a path without the anchor segment
PathNoAnchor == <<"/", "t", "m", "p", "/", "a", "-", "b", "/", "c", "1">>
                    \o JsonlSuffix
\* a path with one segment after the anchor
PathShort == RootDir \o <<"/", "c", "1">> \o JsonlSuffix
\* a path whose last segment is the anchor
PathAnchorLast == <<"/", "x">> \o RootDir
\* a log of another conversation that holds the ids of the first log again,
\* each with the other type
PathC == ProjectDir \o <<"/", "c", "4">> \o JsonlSuffix
\* a log with more entries than a batch holds
PathLong == ProjectDir \o <<"/", "c", "9">> \o JsonlSuffix

\* the paths ProcessConversationFile is called with in SpecReader
ReaderPaths == {PathA, PathB, PathSub, PathNoAnchor, PathShort,
                PathAnchorLast}

\* os.Open succeeds
Exists(filepath) ==
    IF filepath = PathA THEN disk.gone = "no"
    ELSE filepath \in {PathB, PathSub, PathLong, PathC}

\* the lines the first log starts with, and those appended to it later: an
\* entry whose id is in the file already, two new entries, and lines without
\* an entry
BaseLines ==
    <<JsonLine("user", "m1", ""), BadLine,
      JsonLine("assistant", "m2", "m1"), BlankLine,
      JsonLine("system", "m3", "m2")>>
AppendedLines ==
    <<JsonLine("assistant", "m2", "m1"), JsonLine("user", "m4", "m2"), BadLine,
      JsonLine("assistant", "m5", "m4"), BlankLine>>

\* the lines of a file
FileContent(filepath) ==
    IF filepath = PathA
    THEN IF disk.appended = "no" THEN BaseLines
         ELSE BaseLines \o AppendedLines
    ELSE IF filepath = PathB
    THEN <<BadLine, JsonLine("user", "n1", "")>>
    ELSE IF filepath = PathSub
    THEN <<JsonLine("user", "m1", "")>>
    ELSE IF filepath = PathC
    THEN <<JsonLine("user", "m2", ""), JsonLine("assistant", "m1", "m2")>>
    ELSE IF filepath = PathLong
    THEN <<JsonLine("user", "e1", ""), BadLine,
           JsonLine("assistant", "e2", "e1"), BlankLine,
           JsonLine("user", "e3", "e2"), JsonLine("assistant", "e4", "e3"),
           JsonLine("user", "e5", "e4"), JsonLine("assistant", "e6", "e5"),
           JsonLine("user", "e7", "e6"), JsonLine("assistant", "e8", "e7"),
           JsonLine("user", "e9", "e8"), JsonLine("assistant", "e10", "e9"),
           JsonLine("user", "e11", "e10")>>
    ELSE <<>>

\* strings.TrimSpace(line) == ""
IsBlank(line) == line.kind = "blank"

\* json.Unmarshal([]byte(line), &entry) returns an error
ParseFailsMut(line) == line.kind # "bad"
ParseFails(line) == line.kind = "bad"

\* scanner.Scan(); scanner.Text(): the k-th turn of the loop reads the k-th
\* line of the file
LineAtMut(file, k) == file[Len(file) + 1 - k]
LineAt(file, k) == file[k]

\* a reader that is not inside ProcessConversationFile
IdleFile == [pc |-> "idle", path |-> <<>>, line |-> 0, sessionID |-> <<>>]

\* a unit calls ProcessConversationFile(filepath): the path is split and
\* the anchor looked up; a rejected path returns; otherwise the unit takes
\* m.mu for the session map.
ProcessConversationFile(u, filepath) ==
    /\ pcf[u].pc = "idle"
    /\ rd[u].pc = "idle"
    /\ IF Rejected(filepath)
       THEN /\ lastRet' = "rejected"
            /\ UNCHANGED <<mmu, pcf>>
       ELSE /\ Unlocked(mmu)
            /\ mmu' = u
            /\ pcf' = [pcf EXCEPT ![u] = [IdleFile EXCEPT !.pc = "session",
                                                           !.path = filepath]]
            /\ UNCHANGED lastRet
    /\ UNCHANGED <<processedMessages, conversationSessions, messageCount, rd,
                   inserted, counted, lastPM>>
    /\ UNCHANGED <<clientVars, watcherVars, mainVars, cbVars, liveVars, extractVars, lockVars>>

\* ProcessConversationFile, under m.mu: the session id of the path is looked
\* up, or computed and stored; m.mu is released.
PCFSession(u) ==
    /\ pcf[u].pc = "session"
    /\ mmu = u
    /\ mmu' = Unlock(u)
    /\ conversationSessions' = GetOrCreate(conversationSessions, pcf[u].path)
    /\ pcf' = [pcf EXCEPT ![u].pc = "open",
                          ![u].sessionID = conversationSessions'[pcf[u].path]]
    /\ UNCHANGED <<processedMessages, messageCount, rd, inserted, counted,
                   lastPM, lastRet>>
    /\ UNCHANGED <<clientVars, watcherVars, mainVars, cbVars, liveVars, extractVars, lockVars>>

\* ProcessConversationFile: if err != nil { ...; return } after os.Open
OpenErrorReturnsMut(err) == FALSE
OpenErrorReturns(err) == err

\* ProcessConversationFile: os.Open; on an error the call reports it and
\* returns
PCFOpen(u) ==
    /\ pcf[u].pc = "open"
    /\ IF ~OpenErrorReturns(~Exists(pcf[u].path))
       THEN /\ pcf' = [pcf EXCEPT ![u].pc = "scan"]
            /\ UNCHANGED lastRet
       ELSE /\ pcf' = [pcf EXCEPT ![u] = IdleFile]
            /\ lastRet' = "open_failed"
    /\ UNCHANGED <<monitorVars, clientVars, watcherVars, mainVars, cbVars, liveVars, extractVars, lockVars>>

\* ProcessConversationFile, one turn of the scanner loop: at the end of the
\* file the call returns (the file is closed); a blank line and a line that
\* does not parse are skipped; any other line's entry is handed to
\* ProcessMessage.
PCFScan(u) ==
    /\ pcf[u].pc = "scan"
    /\ rd[u].pc = "idle"
    /\ LET file == FileContent(pcf[u].path)
           k == pcf[u].line + 1
       IN IF k > Len(file)
          THEN /\ pcf' = [pcf EXCEPT ![u] = IdleFile]
               /\ lastRet' = "eof"
               /\ UNCHANGED <<monitorVars, clientVars, watcherVars, mainVars, cbVars, liveVars, extractVars, lockVars>>
          ELSE /\ pcf' = [pcf EXCEPT ![u].line = k]
               /\ UNCHANGED lastRet
               /\ IF IsBlank(LineAt(file, k)) \/ ParseFails(LineAt(file, k))
                  THEN UNCHANGED <<monitorVars, clientVars, watcherVars, mainVars, cbVars, liveVars, extractVars, lockVars>>
                  ELSE ProcessMessage(u, LineAt(file, k).entry, pcf[u].sessionID)

ReaderInit ==
    /\ pcf = [r \in Readers |-> IdleFile]
    /\ lastRet = "none"
    /\ disk = [appended |-> "no", gone |-> "no"]

NextReader ==
    \/ \E u \in Readers, path \in ReaderPaths : ProcessConversationFile(u, path)
    \/ \E u \in Readers : PCFSession(u)
    \/ \E u \in Readers : PCFOpen(u)
    \/ \E u \in Readers : PCFScan(u)
    \/ \E u \in Readers : PMDedup(u)
    \/ \E u \in Readers : PMLock(u)
    \/ \E u \in Readers : PMCount(u)
    \/ \E u \in Readers : PMSend(u)

\* the callbacks of SpecPipeline: one goroutine per dispatched path
PipelinePaths(u) == IF u = Reader(1) THEN {PathLong} ELSE {PathB, PathGone}
PipelineReaders == {Reader(1), Reader(2)}

NextPipeline ==
    \/ \E u \in PipelineReaders : \E path \in PipelinePaths(u) :
          ProcessConversationFile(u, path)
    \/ \E u \in PipelineReaders : PCFSession(u)
    \/ \E u \in PipelineReaders : PCFOpen(u)
    \/ \E u \in PipelineReaders : PCFScan(u)
    \/ \E u \in PipelineReaders : PMDedup(u)
    \/ \E u \in PipelineReaders : PMLock(u)
    \/ \E u \in PipelineReaders : PMCount(u)
    \/ \E u \in PipelineReaders : PMSend(u)
    \/ \E u \in PipelineReaders, o \in Outcomes :
          HttpReturns(u, o)

(***************************************************************************)
(* The start command (main.go), with --history 0: the watcher is started,  *)
(* the flush ticker goroutine is launched, and on a signal the shutdown    *)
(* path runs.  The position of the main goroutine is given by what it has  *)
(* done so far.  The callbacks are units that enqueue events.              *)
(***************************************************************************)
\* w.Start(), whose error would end the command
MainStart(root, subOk) ==
    /\ ~exited
    /\ Start(root, subOk)

\* go func() { for { select { case <-flushTicker.C: ...; case <-done: ... } } }()
SpawnTicker ==
    /\ ~exited
    /\ started
    /\ flushLoop = "none"
    /\ flushLoop' = "running"
    /\ UNCHANGED <<tickerDone, nFinal, finalRet, exited>>
    /\ UNCHANGED <<clientVars, watcherVars, monitorVars, readerVars, cbVars, liveVars, extractVars, lockVars>>

\* a callback that was dispatched enqueues an event
CallbackEnqueue(u) ==
    /\ ~exited
    /\ started
    /\ Len(enqLog) < MaxMainEvents
    /\ CreateTrace(u)

\* the ticker goroutine takes case <-flushTicker.C: mon.Flush()
TickerFlush ==
    /\ ~exited
    /\ flushLoop = "running"
    /\ TimerFlush

\* the HTTP exchange of the ticker goroutine or of a callback ends
MainHttpReturns(u, outcome) ==
    /\ ~exited
    /\ HttpReturns(u, outcome)

\* the ticker goroutine takes case <-done: return
TickerExit ==
    /\ ~exited
    /\ flushLoop = "running"
    /\ tickerDone
    /\ call[TimerUnit].st = "idle"
    /\ flushLoop' = "exited"
    /\ UNCHANGED <<tickerDone, nFinal, finalRet, exited>>
    /\ UNCHANGED <<clientVars, watcherVars, monitorVars, readerVars, cbVars, liveVars, extractVars, lockVars>>

\* <-sigChan; close(done); flushTicker.Stop()
Signal ==
    /\ ~exited
    /\ flushLoop # "none"
    /\ ~tickerDone
    /\ tickerDone' = TRUE
    /\ UNCHANGED <<flushLoop, nFinal, finalRet, exited>>
    /\ UNCHANGED <<clientVars, watcherVars, monitorVars, readerVars, cbVars, liveVars, extractVars, lockVars>>

\* the shutdown path: w.Close()
MainClose ==
    /\ ~exited
    /\ tickerDone
    /\ nClose = 0
    /\ Close

\* the loops of the watcher return
MainEventLoopExit ==
    /\ ~exited
    /\ EventLoopExit
MainScanLoopExit ==
    /\ ~exited
    /\ ScanLoopExit

\* what Flush has returned: nil or an error
FlushResult(err) == IF err THEN "error" ELSE "nil"

\* the shutdown path may call mon.Shutdown(): the ticker is stopped and
\* w.Close() has returned
MayShutdown(stopped, nclose) == stopped /\ nclose >= 1

\* the shutdown path: mon.Shutdown(), that is client.Shutdown(), that is
\* Flush(); with an empty buffer it returns nil at once
Shutdown ==
    /\ ~exited
    /\ MayShutdown(tickerDone, nClose)
    /\ nFinal = 0
    /\ nFinal' = nFinal + 1
    /\ Flush(MainUnit)
    /\ finalRet' = IF call'[MainUnit].st = "post" THEN finalRet
                   ELSE FlushResult(FALSE)
    /\ UNCHANGED <<flushLoop, tickerDone, exited>>
    /\ UNCHANGED <<watcherVars, monitorVars, readerVars, cbVars, liveVars, extractVars, lockVars>>

\* the HTTP exchange of the flush of Shutdown ends, and Flush returns
ShutdownReturns(outcome) ==
    /\ ~exited
    /\ HttpResponse(MainUnit, outcome)
    /\ finalRet' = FlushResult(FlushFailed(outcome))
    /\ UNCHANGED <<flushLoop, tickerDone, nFinal, exited>>
    /\ UNCHANGED <<watcherVars, monitorVars, readerVars, cbVars, liveVars, extractVars, lockVars>>

\* the start command may return: Shutdown has returned
MayExitMut(nshutdown, st) == nshutdown = 1
MayExit(nshutdown, st) == nshutdown = 1 /\ st = "idle"

\* green.Println("Monitor stopped"); return nil: the process exits
Exit ==
    /\ ~exited
    /\ MayExit(nFinal, call[MainUnit].st)
    /\ exited' = TRUE
    /\ UNCHANGED <<flushLoop, tickerDone, nFinal, finalRet>>
    /\ UNCHANGED <<clientVars, watcherVars, monitorVars, readerVars, cbVars, liveVars, extractVars, lockVars>>

MainInit ==
    /\ replayDone = FALSE
    /\ nReplay = 0
    /\ flushLoop = "none"
    /\ tickerDone = FALSE
    /\ nFinal = 0
    /\ finalRet = "none"
    /\ exited = FALSE

NextMain ==
    \/ \E root \in RootStates, subOk \in BOOLEAN : MainStart(root, subOk)
    \/ SpawnTicker
    \/ \E u \in Callers : CallbackEnqueue(u)
    \/ TickerFlush
    \/ \E u \in Callers \cup {TimerUnit}, o \in Outcomes : MainHttpReturns(u, o)
    \/ TickerExit
    \/ Signal
    \/ MainClose
    \/ MainEventLoopExit
    \/ MainScanLoopExit
    \/ Shutdown
    \/ \E o \in Outcomes : ShutdownReturns(o)
    \/ Exit

(***************************************************************************)
(* The start command with --history: ProcessExistingHistory replays the    *)
(* first log on the goroutine of the command before the watcher is         *)
(* started; afterwards the watcher dispatches the log to callbacks, while  *)
(* the program that writes the log appends to it or deletes it.            *)
(***************************************************************************)
\* the goroutine that runs the reader in SpecLive: the command's for the
\* replay, a callback's afterwards
LiveReader == Reader(1)

\* the ids of the entries of lines that ProcessMessage forwards
ForwardedIds(lines) ==
    {lines[k].entry.uuid : k \in {j \in 1..Len(lines) :
        /\ lines[j].kind = "json"
        /\ ~IgnoredType(lines[j].entry)
        /\ ~NoUUID(lines[j].entry)}}

\* the writer of the log appends lines to it
AppendLines ==
    /\ disk.appended = "no"
    /\ disk.gone = "no"
    /\ disk' = [disk EXCEPT !.appended =
                   IF /\ pcf[LiveReader].pc = "idle"
                      /\ ForwardedIds(BaseLines) \subseteq processedMessages
                   THEN "after" ELSE "early"]
    /\ UNCHANGED <<replayDone, nReplay>>
    /\ UNCHANGED <<clientVars, watcherVars, monitorVars, readerVars, mainVars,
                   cbVars, extractVars, lockVars>>

\* the log is deleted
DeleteFile ==
    /\ disk.gone = "no"
    /\ disk' = [disk EXCEPT !.gone =
                   IF PathA \in DOMAIN pendingFiles THEN "pending" ELSE "other"]
    /\ UNCHANGED <<replayDone, nReplay>>
    /\ UNCHANGED <<clientVars, watcherVars, monitorVars, readerVars, mainVars,
                   cbVars, extractVars, lockVars>>

\* ProcessExistingHistory: m.ProcessConversationFile(filepath) for a log
\* that the walk has found, once (the call leaves the path in the session
\* map)
Replay(filepath) ==
    /\ ~replayDone
    /\ ~started
    /\ filepath \notin DOMAIN conversationSessions
    /\ ProcessConversationFile(LiveReader, filepath)

\* ProcessExistingHistory returns, after the calls for the logs it found
\* (none, where no log is recent enough) have returned
HistoryReturns ==
    /\ ~replayDone
    /\ ~started
    /\ pcf[LiveReader].pc = "idle"
    /\ rd[LiveReader].pc = "idle"
    /\ replayDone' = TRUE
    /\ nReplay' = Len(enqLog)
    /\ UNCHANGED disk
    /\ UNCHANGED <<clientVars, watcherVars, monitorVars, readerVars, mainVars,
                   cbVars, extractVars, lockVars>>

\* w.Start(), after the replay
LiveStart(root, subOk) ==
    /\ replayDone
    /\ Start(root, subOk)

\* an event on the log: a write, or its removal
LiveOps == {{"Write"}, {"Remove"}}
LiveEvent(op) == FsEvent(PathA, op)

\* go w.callback(file): a callback runs the reader on a path that the scan
\* has dispatched
LiveCallback(filepath) ==
    /\ nCb[filepath] > 0
    /\ ProcessConversationFile(LiveReader, filepath)

NextLive ==
    \/ AppendLines
    \/ DeleteFile
    \/ Replay(PathA)
    \/ HistoryReturns
    \/ \E root \in RootStates, subOk \in BOOLEAN : LiveStart(root, subOk)
    \/ \E op \in LiveOps : LiveEvent(op)
    \/ Tick
    \/ LiveCallback(PathA)
    \/ PCFSession(LiveReader)
    \/ PCFOpen(LiveReader)
    \/ PCFScan(LiveReader)
    \/ PMDedup(LiveReader)
    \/ PMLock(LiveReader)
    \/ PMCount(LiveReader)
    \/ PMSend(LiveReader)

(***************************************************************************)
(* monitor.Monitor: extractContent.  Texts are sequences of characters.    *)
(* A payload (json.RawMessage) is                                          *)
(*   [kind |-> "empty"]    no bytes                                        *)
(*   [kind |-> "string"]   a JSON string, with its value s                 *)
(*   [kind |-> "other"]    JSON that is neither a string nor an object     *)
(*   [kind |-> "object"]   an object with a "text" member (a string, ""    *)
(*                         where absent) and a "content" member that is    *)
(*                         absent, a string, or an array of blocks         *)
(* A block has the members of ContentBlock that extractContent reads.      *)
(***************************************************************************)
LF == "\n"
NoText == << >>
Texts == {NoText, <<"h", "i">>}

\* block.Input: absent, or an object
Inputs == {"none", "object"}

\* json.Indent(&prettyInput, block.Input, "", "  "), for the object {"k":1}
Indented(input) ==
    <<"{", LF, " ", " ", "\"", "k", "\"", ":", " ", "1", LF, "}">>

Blocks ==
    [type : {"text", "tool_use", "tool_result", "image"},
     text : Texts,
     name : {<<"R", "e", "a", "d">>},
     input : Inputs,
     content : {NoText, <<"o", "k">>}]

\* sequences of at most n elements of S
RECURSIVE SeqsUpTo(_, _)
SeqsUpTo(S, n) ==
    IF n = 0 THEN {<< >>}
    ELSE LET shorter == SeqsUpTo(S, n - 1)
         IN shorter \cup {Append(q, x) : q \in shorter, x \in S}

\* the "content" member of an object
Contents ==
    {[kind |-> "absent", blocks |-> << >>], [kind |-> "string", blocks |-> << >>]}
       \cup {[kind |-> "array", blocks |-> b] : b \in SeqsUpTo(Blocks, MaxBlocks)}

EmptyPayload == [kind |-> "empty", s |-> NoText, text |-> NoText,
                 content |-> [kind |-> "absent", blocks |-> << >>]]
Payloads ==
    {EmptyPayload}
       \cup {[EmptyPayload EXCEPT !.kind = "string", !.s = t] : t \in Texts}
       \cup {[EmptyPayload EXCEPT !.kind = "other"]}
       \cup {[EmptyPayload EXCEPT !.kind = "object", !.text = t, !.content = c] :
                t \in Texts, c \in Contents}

\* json.Unmarshal(rawMessage, &strMessage) returns nil
IsString(raw) == raw.kind = "string"

\* json.Unmarshal(rawMessage, &msgContent) returns an error: the payload is
\* no object, or a member has another type than its field (Content is a
\* []ContentBlock)
DecodeFails(raw) == raw.kind # "object" \/ raw.content.kind = "string"

\* fmt.Sprintf("[Tool: %s]\n%s", block.Name, inputStr)
ToolPart(block) ==
    <<"[", "T", "o", "o", "l", ":", " ">> \o block.name \o <<"]", LF>>
       \o (IF block.input = "none" THEN NoText ELSE Indented(block.input))

\* the switch over block.Type: the parts a block appends
PartsOf(block) ==
    IF block.type = "text"
    THEN IF block.text # NoText THEN <<block.text>> ELSE << >>
    ELSE IF block.type = "tool_use"
    THEN <<ToolPart(block)>>
    ELSE IF block.type = "tool_result"
    THEN IF block.content # NoText THEN <<block.content>> ELSE << >>
    ELSE IF block.text # NoText THEN <<block.text>> ELSE << >>

\* the loop over msgContent.Content
RECURSIVE Parts(_)
Parts(blocks) ==
    IF blocks = << >> THEN << >>
    ELSE PartsOf(Head(blocks)) \o Parts(Tail(blocks))

\* strings.Join(parts, sep)
RECURSIVE Join(_, _)
Join(parts, sep) ==
    IF parts = << >> THEN NoText
    ELSE IF Len(parts) = 1 THEN parts[1]
    ELSE parts[1] \o sep \o Join(Tail(parts), sep)

\* extractContent
ExtractContent(raw) ==
    IF raw.kind = "empty" THEN NoText
    ELSE IF IsString(raw) THEN raw.s
    ELSE IF DecodeFails(raw) THEN NoText
    ELSE IF Len(raw.content.blocks) > 0 /\ Len(Parts(raw.content.blocks)) > 0
    THEN Join(Parts(raw.content.blocks), <<LF, LF>>)
    ELSE IF raw.text # NoText THEN raw.text
    ELSE NoText

\* text, while extractContent has not returned
Unset == <<"unset">>

\* ProcessMessage calls m.extractContent(entry.Message)
CallExtract(raw) ==
    /\ text = Unset
    /\ rawMessage = EmptyPayload
    /\ raw # EmptyPayload
    /\ rawMessage' = raw
    /\ UNCHANGED text
    /\ UNCHANGED <<clientVars, watcherVars, monitorVars, readerVars, mainVars,
                   cbVars, liveVars, lockVars>>

\* extractContent returns
ExtractReturns ==
    /\ text = Unset
    /\ text' = ExtractContent(rawMessage)
    /\ UNCHANGED rawMessage
    /\ UNCHANGED <<clientVars, watcherVars, monitorVars, readerVars, mainVars,
                   cbVars, liveVars, lockVars>>

ExtractInit ==
    /\ rawMessage = EmptyPayload
    /\ text = Unset

NextExtract ==
    \/ \E raw \in Payloads : CallExtract(raw)
    \/ ExtractReturns

(***************************************************************************)
(* Specifications.                                                         *)
(***************************************************************************)
(***************************************************************************)
(* The three locks together: w.mu of the watcher, taken by its two loops,  *)
(* m.mu of the monitor, taken by the callbacks, and c.mu of the client,    *)
(* taken by the callbacks' enqueues, the flush ticker and the shutdown     *)
(* path.  Here the critical sections of the watcher are two steps each:    *)
(* the lock is taken, then the section runs and the lock is released.      *)
(***************************************************************************)
EventsUnit == <<"events", 0>>
ScanUnit == <<"scan", 0>>
NoEvent == [name |-> << >>, op |-> {}]

\* processEvents: w.mu.Lock() for a write or create event on a log
EventsLock(name, op) ==
    /\ evLoop = "running"
    /\ ~closed
    /\ Dir(name) \in watched
    /\ ~IsNewDirectory(name, op)
    /\ Qualifies(name, op)
    /\ nEv < MaxLockEvents
    /\ wmu = NoUnit
    /\ wmu' = EventsUnit
    /\ held' = [name |-> name, op |-> op]
    /\ UNCHANGED <<clientVars, watcherVars, monitorVars, readerVars, mainVars,
                   cbVars, liveVars, extractVars>>

\* processEvents: w.pendingFiles[event.Name] = time.Now(); w.mu.Unlock()
EventsRecord ==
    /\ wmu = EventsUnit
    /\ ProcessEvent(held.name, held.op)
    /\ wmu' = NoUnit
    /\ held' = NoEvent

\* processPendingFiles: case <-ticker.C: w.mu.Lock()
ScanLock ==
    /\ started
    /\ scanLoop = "running"
    /\ now < MaxTicks * TickMs
    /\ wmu = NoUnit
    /\ wmu' = ScanUnit
    /\ UNCHANGED held
    /\ UNCHANGED <<clientVars, watcherVars, monitorVars, readerVars, mainVars,
                   cbVars, liveVars, extractVars>>

\* processPendingFiles: now := time.Now(), the loop over pendingFiles with
\* go w.callback(file) for the settled paths, w.mu.Unlock()
ScanDispatch ==
    /\ wmu = ScanUnit
    /\ ScanTick
    /\ wmu' = NoUnit
    /\ UNCHANGED held

\* the goroutine of a dispatch runs the callback, ProcessConversationFile;
\* the callbacks of two dispatches of a log may run at once (dispatches
\* after the first are not counted here)
LockCallback(u, filepath) ==
    /\ nCb[filepath] > 0
    /\ ProcessConversationFile(u, filepath)

\* the shutdown path: mon.Shutdown(), which is Flush
ShutdownFlush == CallerFlush(MainUnit)

LockInit ==
    /\ wmu = NoUnit
    /\ held = NoEvent

NextLocks ==
    \/ Start("ok", TRUE)
    \/ \E op \in Ops : EventsLock(PathB, op)
    \/ EventsRecord
    \/ ScanLock
    \/ ScanDispatch
    \/ \E u \in PipelineReaders : LockCallback(u, PathB)
    \/ \E u \in PipelineReaders : PCFSession(u)
    \/ \E u \in PipelineReaders : PCFOpen(u)
    \/ \E u \in PipelineReaders : PCFScan(u)
    \/ \E u \in PipelineReaders : PMDedup(u)
    \/ \E u \in PipelineReaders : PMLock(u)
    \/ \E u \in PipelineReaders : PMCount(u)
    \/ \E u \in PipelineReaders : PMSend(u)
    \/ TimerFlush
    \/ ShutdownFlush
    \/ \E o \in Outcomes : HttpReturns(TimerUnit, o)
    \/ \E o \in Outcomes : HttpReturns(MainUnit, o)

Init ==
    /\ ClientInit
    /\ WatcherInit
    /\ MonitorInit
    /\ ReaderInit
    /\ MainInit
    /\ ExtractInit
    /\ LockInit

\* the delivery client under its callers and the flush ticker
SpecClient == Init /\ [][NextClient]_vars

\* the watcher under filesystem events and the passing of time
SpecWatcher == Init /\ [][NextWatcher]_vars

\* the watcher while it runs, with events that stop arriving: the last event
\* of the model's time window leaves room for the debounce window after it
QuietEvent(name, op) ==
    /\ now + DebounceMs <= MaxTicks * TickMs
    /\ FsEvent(name, op)

NextDebounce ==
    \/ \E root \in RootStates, subOk \in BOOLEAN : Start(root, subOk)
    \/ \E name \in EventNames, op \in Ops : QuietEvent(name, op)
    \/ Tick

\* the running watcher with its ticker: time passes and the ticker fires
SpecDebounceLive == Init /\ [][NextDebounce]_vars /\ WF_vars(Tick)
\* the watcher with its loops scheduled: a loop whose select has the closed
\* done channel ready eventually takes that case
SpecWatcherLive ==
    SpecWatcher /\ WF_vars(EventLoopExit) /\ WF_vars(ScanLoopExit)

\* concurrent ProcessMessage calls, the client they feed and the flush ticker
SpecMonitor == Init /\ [][NextMonitor]_vars

\* concurrent readers of conversation files of every kind of path, up to
\* the enqueue of their events
SpecReader == Init /\ [][NextReader]_vars

\* extractContent on every payload
SpecExtract == Init /\ [][NextExtract]_vars

\* the replay of a log and its live watching, while it is written
SpecLive == Init /\ [][NextLive]_vars

\* the watcher and the callbacks it has started
SpecDispatch == Init /\ [][NextDispatch]_vars

\* the client, where the flush ticker keeps firing (a tick that finds the
\* ticker goroutine idle and c.mu free is taken) and every HTTP exchange
\* ends (the request has a 30 s timeout)
SpecClientLive ==
    /\ SpecClient
    /\ WF_vars(TimerFlush)
    /\ \A u \in ClientUnits : WF_vars(\E o \in Outcomes : HttpReturns(u, o))

\* the start command from the start of the watcher to its return
SpecMain == Init /\ [][NextMain]_vars

\* the callbacks of two paths, one of a file with more entries than a batch
\* holds, and the client whose batches they post
\* two callbacks of the watcher running at once over two logs that hold an
\* entry of the same id, and the flush ticker of main.go
DedupPaths == {PathA, PathSub}

NextDedup ==
    \/ \E u \in PipelineReaders, path \in DedupPaths :
          ProcessConversationFile(u, path)
    \/ \E u \in PipelineReaders : PCFSession(u)
    \/ \E u \in PipelineReaders : PCFOpen(u)
    \/ \E u \in PipelineReaders : PCFScan(u)
    \/ \E u \in PipelineReaders : PMDedup(u)
    \/ \E u \in PipelineReaders : PMLock(u)
    \/ \E u \in PipelineReaders : PMCount(u)
    \/ \E u \in PipelineReaders : PMSend(u)
    \/ TimerFlush
    \/ \E o \in Outcomes : HttpReturns(TimerUnit, o)

\* the readers, the ledger and the client under the flush ticker
SpecDedup == Init /\ [][NextDedup]_vars
\* two callbacks of the watcher running at once over one log: a second burst
\* of writes has settled and was dispatched while the first callback runs
NextOverlap ==
    \/ \E u \in PipelineReaders : ProcessConversationFile(u, PathA)
    \/ \E u \in PipelineReaders : PCFSession(u)
    \/ \E u \in PipelineReaders : PCFOpen(u)
    \/ \E u \in PipelineReaders : PCFScan(u)
    \/ \E u \in PipelineReaders : PMDedup(u)
    \/ \E u \in PipelineReaders : PMLock(u)
    \/ \E u \in PipelineReaders : PMCount(u)
    \/ \E u \in PipelineReaders : PMSend(u)

\* overlapping readers of one log
SpecOverlap == Init /\ [][NextOverlap]_vars
\* two callbacks of the watcher running at once over the logs of two
\* conversations that hold the same ids
CrossPaths == {PathA, PathC}

NextCross ==
    \/ \E u \in PipelineReaders, path \in CrossPaths :
          ProcessConversationFile(u, path)
    \/ \E u \in PipelineReaders : PCFSession(u)
    \/ \E u \in PipelineReaders : PCFOpen(u)
    \/ \E u \in PipelineReaders : PCFScan(u)
    \/ \E u \in PipelineReaders : PMDedup(u)
    \/ \E u \in PipelineReaders : PMLock(u)
    \/ \E u \in PipelineReaders : PMCount(u)
    \/ \E u \in PipelineReaders : PMSend(u)

\* the readers of two conversations over one ledger
SpecCross == Init /\ [][NextCross]_vars
\* the loops, the callbacks, the flush ticker and the shutdown path
SpecLocks == Init /\ [][NextLocks]_vars
SpecPipeline == Init /\ [][NextPipeline]_vars

(***************************************************************************)
(* Properties of the delivery client (checked under SpecClient).           *)
(***************************************************************************)
CreateOps == {"CreateTrace", "CreateGeneration"}

\* the step in which unit u's HTTP exchange ends and its call returns
Responded(u) == call[u].st = "post" /\ call'[u].st = "idle"

\* the endpoint answered the request that returned last with a status < 400
AnsweredOk(r) == r.nposts = 1 /\ ~r.outcome.err /\ r.outcome.status < 400

\* the request that returned last failed in transport or got a status >= 400
AnsweredBad(r) == r.nposts = 1 /\ (r.outcome.err \/ r.outcome.status >= 400)

\* C3: a flush whose POST fails in transport or is answered with a status
\* >= 400 returns an error and leaves the buffer exactly as it was: the same
\* events, in the same order, of the same length.
C3_FailedFlushKeepsBuffer ==
    [][\A u \in Units :
          (Responded(u) /\ AnsweredBad(ret'))
              => /\ ret'.err
                 /\ events' = events
                 /\ Len(events') = call[u].n
                 /\ ret'.after = call[u].n]_vars

\* C3 witness: a flush of a non-empty buffer has just failed and the events
\* are still queued.
C3_Witness ==
    /\ AnsweredBad(ret)
    /\ ret.err
    /\ ret.n > 1
    /\ Len(events) >= ret.n
    /\ cmu = NoUnit

\* C4: every event ever enqueued is, in enqueue order, either in a batch the
\* endpoint answered with a status < 400 or still in the buffer.
C4_NoEventLost ==
    enqLog = accepted \o events

\* C4 witness: some events were delivered, later ones are still buffered and
\* a flush has failed in between.
C4_Witness ==
    /\ Len(accepted) > 0
    /\ Len(events) > 1
    /\ AnsweredBad(ret)

C6_ReturnedCreate ==
    /\ \A u \in Units :
          (call[u].st = "post" /\ call[u].op \in CreateOps)
              => call[u].n >= BatchSize
    /\ ret.op \in CreateOps =>
          /\ (ret.n >= BatchSize) <=> (ret.flushed /\ ret.nposts = 1)
          /\ (ret.n < BatchSize) =>
                (~ret.flushed /\ ret.nposts = 0 /\ ~ret.err /\ ret.after = ret.n
                 /\ ret.after > 0)

\* C6: size-triggered flush: the state part above, and a non-empty buffer
\* becomes empty only in the step that ends the POST of a flush.
C6_SizeTriggeredFlush ==
    /\ []C6_ReturnedCreate
    /\ [][(Len(events) > 0 /\ Len(events') = 0)
             => \E u \in Units : Responded(u) /\ AnsweredOk(ret')]_vars

\* C6 witness: the enqueue that made the buffer reach exactly the batch size
\* returned after one flush attempt.
C6_Witness ==
    /\ ret.op \in CreateOps
    /\ ret.n = BatchSize
    /\ ret.nposts = 1

\* C17: the delivery lock is held by a unit exactly while its POST is in
\* flight, by one unit at a time; while it is held no event is appended and
\* the buffer changes only by the holder's clear, which removes exactly the
\* events of its batch, all of them accepted: an event enqueued around a
\* flush is in its batch or in the buffer afterwards.
C17_EnqueueFlushExclusive ==
    /\ [](/\ \A u \in Units : call[u].st = "post" <=> cmu = u
          /\ Cardinality({u \in Units : call[u].st = "post"}) <= 1)
    /\ [][cmu # NoUnit
             => /\ enqLog' = enqLog
                /\ \/ events' = events
                   \/ /\ events' = <<>>
                      /\ events = call[cmu].batch
                      /\ accepted' = accepted \o call[cmu].batch
                      /\ cmu' = NoUnit]_vars

\* C17 witness: the ticker's POST is in flight with the lock held, after an
\* earlier batch was accepted and more events were enqueued.
C17_Witness ==
    /\ cmu = TimerUnit
    /\ call[TimerUnit].st = "post"
    /\ Len(call[TimerUnit].batch) >= 2
    /\ Len(accepted) >= 1
    /\ \A u \in Callers : call[u].st = "idle"

(***************************************************************************)
(* Properties of the watcher (checked under SpecWatcher).                  *)
(***************************************************************************)
Pending(q) == q \in DOMAIN pendingFiles

\* C7: a burst of events on one path, each less than the debounce window
\* after the one before, is dispatched exactly once, after its last event:
\* a path has as many dispatches as it has bursts, less the burst that is
\* still pending; while it is pending its timer stands at the latest event
\* (and, while the debounce loop runs, the window has not yet passed), and
\* once it is dispatched the window has passed since that event.
C7_BurstDispatchedOnce ==
    \A q \in EventNames :
        /\ nCb[q] = nBursts[q] - (IF Pending(q) THEN 1 ELSE 0)
        /\ Pending(q) => pendingFiles[q] = lastEv[q]
        /\ (Pending(q) /\ scanLoop = "running") => now - lastEv[q] < DebounceMs
        /\ (~Pending(q) /\ nCb[q] > 0) => now - lastEv[q] >= DebounceMs

\* C7 witness: a burst whose later events reset the timer has settled and
\* was dispatched once.
C7_Witness ==
    /\ nBursts[PathA] = 1
    /\ reset[PathA]
    /\ nCb[PathA] = 1
    /\ ~Pending(PathA)
    /\ lastEv[PathA] >= 2 * TickMs

\* C8: a step that dispatches a path is a step of the scan in which the
\* path leaves the pending set, it dispatches the path once, and at the
\* scan's time the window has passed since the last event recorded for it.
C8_DispatchAfterWindow ==
    [][\A q \in EventNames :
          nCb'[q] # nCb[q]
              => /\ nCb'[q] = nCb[q] + 1
                 /\ Pending(q)
                 /\ q \notin DOMAIN pendingFiles'
                 /\ pendingFiles[q] = lastEv[q]
                 /\ now' - lastEv[q] >= DebounceMs]_vars

\* C8 witness: one path was dispatched at the tick at which its window
\* ended, while another path, whose window has not ended, is still pending.
C8_Witness ==
    /\ nCb[PathA] = 1
    /\ ~Pending(PathA)
    /\ now - lastEv[PathA] = DebounceMs
    /\ Pending(PathB)
    /\ nCb[PathB] = 0

\* C14: Close can be called more than once: close(w.done) is executed by the
\* first call only (a second execution would panic), the watcher is closed
\* from the first call on, and after it both the event loop and the
\* debounce loop eventually exit.
C14_CloseIdempotentTerminating ==
    /\ [](/\ nDoneClose <= 1
          /\ nClose >= 1 => (closed /\ nDoneClose = 1)
          /\ (evLoop = "exited" \/ scanLoop = "exited") => closed)
    /\ (closed ~> (evLoop = "exited" /\ scanLoop = "exited"))

\* C14 witness: Close was called twice, done was closed once and both loops
\* have exited with a path still pending.
C14_Witness ==
    /\ nClose = 2
    /\ nDoneClose = 1
    /\ evLoop = "exited"
    /\ scanLoop = "exited"
    /\ Pending(PathA)

\* C15 (as claimed): when the root path does not exist or cannot be opened,
\* Start returns an error and starts no loop.
C15_StartFailsOnBadRoot ==
    (startRet # "none" /\ rootSeen # "ok")
        => (startRet = "error" /\ evLoop = "none" /\ scanLoop = "none")

(***************************************************************************)
(* Properties of message processing (checked under SpecMonitor).           *)
(***************************************************************************)
\* events with the given id that were ever appended to the buffer
EnqCount(id) == Cardinality({i \in 1..Len(enqLog) : enqLog[i].id = id})

\* readers inside ProcessMessage, past the dedup check, with the given id
Holders(id) ==
    {u \in Readers : rd[u].pc \notin {"idle", "dedup"} /\ rd[u].entry.uuid = id}

\* some reader has marked the id and not yet handed its event to the client
InFlight(id) ==
    \E u \in Readers :
        rd[u].pc \in {"count", "counting", "send"} /\ rd[u].entry.uuid = id

RECURSIVE SumOver(_, _)
SumOver(f, S) ==
    IF S = {} THEN 0
    ELSE LET x == CHOOSE y \in S : TRUE IN f[x] + SumOver(f, S \ {x})

\* what a ProcessMessage call that is a no-op leaves alone
PMFrame ==
    UNCHANGED <<mmu, processedMessages, conversationSessions, messageCount, rd,
                inserted, counted, clientVars>>

\* C1: under every interleaving of concurrent ProcessMessage calls that
\* carry the same non-empty id, one call passes the dedup check: the id is
\* inserted once, one counter is incremented once and one event with that
\* id is enqueued.
C1_AtMostOnceForwarding ==
    /\ \A id \in UUIDs \ {""} :
          /\ inserted[id] <= 1
          /\ (inserted[id] = 1) <=> (id \in processedMessages)
          /\ counted[id] <= inserted[id]
          /\ EnqCount(id) <= counted[id]
          /\ Cardinality(Holders(id)) <= 1
          /\ (id \in processedMessages /\ ~InFlight(id))
                => (counted[id] = 1 /\ EnqCount(id) = 1)
    /\ messageCount.user + messageCount.assistant = SumOver(counted, AllUUIDs)

\* C1 witness: while one reader is between the dedup check and the counter
\* with an id, another reader's call with the same id was turned away.
C1_Witness ==
    \E u \in Readers :
        /\ rd[u].pc = "count"
        /\ rd[u].entry.uuid = "m1"
        /\ lastPM.entry.uuid = "m1"
        /\ lastPM.result = "duplicate"

\* what a ProcessMessage call that finds its id in the ledger leaves alone
DuplicateFrame ==
    UNCHANGED <<processedMessages, conversationSessions, messageCount,
                inserted, counted, clientVars>>

\* C2: an id is never removed from the ledger; a call with an id that is
\* in the ledger changes nothing (it takes the lock, finds the id and
\* returns); an id is inserted once and one event is emitted for it, however
\* often its entry is processed.
C2_IdempotentIngestion ==
    /\ [](\A id \in UUIDs : inserted[id] <= 1 /\ EnqCount(id) <= 1)
    /\ [][/\ processedMessages \subseteq processedMessages'
          /\ \A u \in Readers, e \in Entries, sid \in SessionIDs :
                ProcessMessage(u, e, sid) => DuplicateFrame
          /\ \A u \in Readers :
                (PMDedup(u) /\ rd[u].entry.uuid \in processedMessages)
                    => (DuplicateFrame /\ rd'[u] = IdleReader)]_vars

\* C2 witness: an entry whose id had been inserted, counted and forwarded
\* was processed again and turned away.
C2_Witness ==
    /\ lastPM.result = "duplicate"
    /\ lastPM.entry.type = "user"
    /\ inserted[lastPM.entry.uuid] = 1
    /\ messageCount.user = 1
    /\ EnqCount(lastPM.entry.uuid) = 1
    /\ \A u \in Readers : rd[u].pc = "idle"

\* C9: a call with an entry whose id is empty changes nothing, whatever
\* its other fields: the empty id is never in the ledger, never counted,
\* never the id of an event.
C9_EmptyIdIsNoOp ==
    /\ [](/\ "" \notin processedMessages
          /\ inserted[""] = 0
          /\ counted[""] = 0
          /\ EnqCount("") = 0
          /\ Holders("") = {})
    /\ [][\A u \in Readers, e \in Entries, sid \in SessionIDs :
             (ProcessMessage(u, e, sid) /\ e.uuid = "") => PMFrame]_vars

\* C9 witness: after a user message was processed, a user entry without an
\* id was handed to ProcessMessage and dropped.
C9_Witness ==
    /\ lastPM.entry.uuid = ""
    /\ lastPM.entry.type = "user"
    /\ lastPM.result = "no_uuid"
    /\ messageCount.user = 1

\* C10: a call with an entry that is neither a user nor an assistant entry
\* changes nothing, even when the entry has an id: no insertion, no counter
\* change, no event.
C10_OtherKindIsNoOp ==
    /\ [](\A u \in Readers : rd[u].pc # "idle" => ~IgnoredType(rd[u].entry))
    /\ [][\A u \in Readers, e \in Entries, sid \in SessionIDs :
             (ProcessMessage(u, e, sid) /\ e.type \notin {"user", "assistant"})
                 => PMFrame]_vars

\* C10 witness: a system entry with an id that is not in the ledger was
\* handed to ProcessMessage and dropped; the id is still not in the ledger.
C10_Witness ==
    /\ lastPM.entry.type = "system"
    /\ lastPM.entry.uuid = "m2"
    /\ lastPM.result = "ignored_type"
    /\ "m2" \notin processedMessages
    /\ inserted["m2"] = 0

(***************************************************************************)
(* Properties of the file reader (checked under SpecReader).               *)
(***************************************************************************)
\* the ids of the lines of a file that parse to a user or an assistant
\* entry with an id
QualifyingIds(filepath) ==
    LET file == FileContent(filepath)
    IN {file[k].entry.uuid : k \in {j \in 1..Len(file) :
            /\ file[j].kind = "json"
            /\ file[j].entry.type \in {"user", "assistant"}
            /\ file[j].entry.uuid # ""}}

\* no reader is inside ProcessConversationFile or ProcessMessage
AllIdle == \A u \in Readers : pcf[u].pc = "idle" /\ rd[u].pc = "idle"

\* the step in which reader u's ProcessConversationFile returns
Returns(u) == pcf[u].pc # "idle" /\ pcf'[u].pc = "idle"

\* C11: a line that fails to parse is skipped and the reader stays in its
\* loop; a reader that has opened a file returns only at the end of the
\* file, and then every valid user/assistant line of the file, before or
\* after a malformed line, has been processed; the file of one malformed
\* line followed by one valid user line gives one user message counted.
C11_MalformedLineSkipped ==
    /\ [](/\ \A u \in Readers :
                pcf[u].pc = "scan" => pcf[u].line <= Len(FileContent(pcf[u].path))
          /\ (AllIdle /\ processedMessages = {"n1"})
                => (messageCount = [user |-> 1, assistant |-> 0]
                    /\ EnqCount("n1") = 1))
    /\ [][\A u \in Readers :
             /\ (pcf[u].pc = "scan" /\ Returns(u))
                   => /\ pcf[u].line = Len(FileContent(pcf[u].path))
                      /\ QualifyingIds(pcf[u].path) \subseteq processedMessages
             /\ (/\ pcf[u].pc = "scan"
                 /\ pcf'[u] # pcf[u]
                 /\ pcf[u].line < Len(FileContent(pcf[u].path))
                 /\ FileContent(pcf[u].path)[pcf[u].line + 1].kind = "bad")
                   => /\ pcf'[u] = [pcf[u] EXCEPT !.line = @ + 1]
                      /\ UNCHANGED <<monitorVars, clientVars>>]_vars

\* C11 witness: the file of one malformed line and one valid user line was
\* read to its end, and one user message is counted.
C11_Witness ==
    /\ lastRet = "eof"
    /\ AllIdle
    /\ processedMessages = {"n1"}
    /\ messageCount = [user |-> 1, assistant |-> 0]
    /\ PathB \in DOMAIN conversationSessions

\* paths without the anchor, or with fewer than two segments after it
RejectedPaths == {PathNoAnchor, PathShort, PathAnchorLast}

\* C12: a call with a path that has no segment "projects", or fewer than two
\* segments after it, changes neither the session map, the ledger, the
\* counters nor the buffer, and the caller is outside
\* ProcessConversationFile afterwards, so that the file is never opened; no
\* such path is ever a key of the session map or the path of a reader.
C12_PathRejected ==
    /\ [](/\ RejectedPaths \cap DOMAIN conversationSessions = {}
          /\ \A u \in Readers : pcf[u].path \notin RejectedPaths)
    /\ [][\A u \in Readers, path \in RejectedPaths :
             ProcessConversationFile(u, path)
                 => UNCHANGED <<monitorVars, clientVars, pcf>>]_vars

\* C12 witness: after messages were processed, a call with a rejected path
\* has returned.
C12_Witness ==
    /\ lastRet = "rejected"
    /\ AllIdle
    /\ processedMessages = {"m1", "m2"}
    /\ DOMAIN conversationSessions = {PathA}

\* the session id of a path of the model, from the project path and the
\* conversation id written out
ExpectedSessionID(filepath) ==
    IF filepath \in {PathA, PathSub}
    THEN HexEncode(Md5Sum(<<"a", "/", "b", ":", "c", "1">>))
    ELSE IF filepath = PathB
    THEN HexEncode(Md5Sum(<<"a", "/", "b", ":", "c", "2">>))
    ELSE <<>>

C16_DeliveryFailureIsolated ==
    [][/\ processedMessages \subseteq processedMessages'
       /\ \A u \in PipelineReaders, o \in Outcomes :
             (HttpReturns(u, o) /\ (o.err \/ o.status >= 400))
                 => /\ rd'[u] = IdleReader
                    /\ pcf[u].pc = "scan"
                    /\ pcf'[u] = pcf[u]
                    /\ rd[u].entry.uuid \in processedMessages'
                    /\ messageCount' = messageCount
                    /\ events' = events
                    /\ events[Len(events)].id = rd[u].entry.uuid
       /\ \A u \in PipelineReaders :
             (pcf[u].pc = "scan" /\ Returns(u))
                 => /\ pcf[u].line = Len(FileContent(pcf[u].path))
                    /\ \A id \in QualifyingIds(pcf[u].path) :
                          /\ id \in processedMessages
                          /\ counted[id] = 1
                          /\ EnqCount(id) = 1]_vars

\* C16 witness: every flush has failed, and still both readers have read
\* their files to the end: the eleventh entry of the long file and the entry
\* of the other file were enqueued after the failures.
C16_Witness ==
    /\ lastRet = "eof"
    /\ AllIdle
    /\ accepted = <<>>
    /\ ret.err
    /\ Len(events) = 12
    /\ events[11].id = "e11"
    /\ events[12].id = "n1"
    /\ {"e11", "n1"} \subseteq processedMessages

\* C18: a unit that holds the dedup/session lock is inside one of the three
\* critical sections (the session lookup, the dedup check, the counter
\* increment) and inside no client call; and no step that opens a file,
\* reads a line, prints the activity line and enqueues, or ends an HTTP
\* exchange is taken by a unit that holds the lock, nor leaves it holding
\* the lock (reading a line excepted, after which ProcessMessage takes the
\* lock for the dedup check).
C18_NoIOUnderDedupLock ==
    /\ [](\A u \in Units :
             mmu = u
                 => /\ u \in Readers
                    /\ call[u].st = "idle"
                    /\ cmu # u
                    /\ \/ pcf[u].pc = "session" /\ rd[u].pc = "idle"
                       \/ pcf[u].pc = "scan" /\ rd[u].pc \in {"dedup", "counting"})
    /\ [][\A u \in Readers :
             /\ PCFScan(u) => mmu # u
             /\ (PCFOpen(u) \/ PMSend(u) \/ \E o \in Outcomes : HttpReturns(u, o))
                   => (mmu # u /\ mmu' # u)]_vars

\* C18 witness: one reader holds the lock for the counter increment while
\* the POST of the other reader's enqueue is in flight.
C18_Witness ==
    /\ mmu = Reader(1)
    /\ rd[Reader(1)].pc = "counting"
    /\ call[Reader(2)].st = "post"
    /\ cmu = Reader(2)

\* C19: shutdown ordering.  The shutdown path first closes done and stops
\* the flush ticker, then closes the watcher (which ends its loops and
\* closes the watch handle, once), and only then calls Shutdown, whose one
\* Flush is the final flush: it is called exactly once, and the command
\* returns only after that Flush has returned nil or an error.
C19_ShutdownOrdering ==
    /\ [](/\ nFinal <= 1
          /\ nClose >= 1 => tickerDone
          /\ nFinal = 1 => (tickerDone /\ closed /\ nDoneClose = 1)
          /\ exited => /\ nFinal = 1
                       /\ call[MainUnit].st = "idle"
                       /\ finalRet \in {"nil", "error"})
    /\ [][/\ nFinal' # nFinal => (tickerDone /\ closed /\ nDoneClose = 1
                                    /\ call'[MainUnit].st \in {"idle", "post"})
          /\ finalRet' # finalRet => (nFinal' = 1 /\ finalRet = "none"
                                        /\ call'[MainUnit].st = "idle")]_vars

\* C19 witness: the command has returned after a final flush that failed
\* and left its events in the buffer.
C19_Witness ==
    /\ exited
    /\ finalRet = "error"
    /\ Len(events) > 0
    /\ nDoneClose = 1

\* every enqueued event is in a batch that the endpoint accepted
AllDelivered ==
    \A i \in 1..Len(enqLog) : \E j \in 1..Len(accepted) : accepted[j] = enqLog[i]

\* from some point on, the endpoint answers every request with a status
\* below 400
EndpointRecovers ==
    <>[][\A u \in ClientUnits, o \in Outcomes :
            HttpReturns(u, o) => ~FlushFailed(o)]_vars

\* C20: retry by the next flush.  A failed flush leaves the buffer as it
\* is, and every flush, timer-triggered or threshold-triggered, posts the
\* whole buffer: what a failed flush left and what was enqueued since.
\* Hence, where the periodic flush keeps firing and the endpoint eventually
\* answers with a status below 400, eventually every enqueued event has
\* been delivered and the buffer is empty.
C20_RetryByNextFlush ==
    /\ [][\A u \in ClientUnits :
            /\ (call[u].st = "idle" /\ call'[u].st = "post")
                  => (call'[u].batch = events' /\ call'[u].n = Len(events'))
            /\ \A o \in Outcomes :
                  (HttpReturns(u, o) /\ FlushFailed(o)) => events' = events]_vars
    /\ EndpointRecovers => <>[](events = <<>> /\ AllDelivered)

\* C20 witness: a timer-triggered flush has delivered, in one batch, the
\* events that a failed threshold-triggered flush had left in the buffer
\* and the event enqueued since.
C20_Witness ==
    /\ events = <<>>
    /\ AllDelivered
    /\ Len(accepted) = BatchSize + 1
    /\ ret.unit = TimerUnit
    /\ ret.n = BatchSize + 1
    /\ ~ret.err

\* C21: only log files are dispatched.  A step records a path in
\* pendingFiles only for an event on a name that ends in .jsonl whose op is
\* a write, or a create of what is no directory; an event on another name, a
\* create of a directory (whatever its name) and a remove, rename or chmod
\* leave pendingFiles alone; and only a pending .jsonl path is dispatched.
C21_OnlyLogFilesDispatched ==
    /\ [](\A q \in EventNames :
            (q \in DOMAIN pendingFiles \/ nCb[q] > 0) => HasSuffix(q, JsonlSuffix))
    /\ [][/\ \A q \in EventNames :
                (/\ q \in DOMAIN pendingFiles'
                 /\ q \in DOMAIN pendingFiles => pendingFiles'[q] # pendingFiles[q])
                   => /\ HasSuffix(q, JsonlSuffix)
                      /\ \E op \in Ops :
                            /\ FsEvent(q, op)
                            /\ "Write" \in op \/ ("Create" \in op /\ ~IsDir(q))
          /\ \A q \in EventNames, op \in Ops :
                (/\ FsEvent(q, op)
                 /\ \/ ~HasSuffix(q, JsonlSuffix)
                    \/ "Create" \in op /\ IsDir(q)
                    \/ op \cap {"Write", "Create"} = {})
                   => UNCHANGED <<pendingFiles, lastEv, nEv>>
          /\ \A q \in EventNames :
                nCb'[q] # nCb[q] => (q \in DOMAIN pendingFiles
                                       /\ HasSuffix(q, JsonlSuffix))]_vars

\* C21 witness: a log file has been dispatched, and the directory named
\* d.jsonl, whose creation was reported, was registered and never pending.
C21_Witness ==
    /\ nCb[PathA] >= 1
    /\ PathDir \in watched
    /\ lastEv[PathDir] < 0
    /\ lastEv[PathTxt] < 0

\* a callback started for path q has not returned
Running(q) == nRet[q] < nCb[q]

\* C22: a slow callback never blocks detection.  While callbacks are
\* running, the event loop can take and record a write to a log file, the
\* period of the scan's ticker can pass, and every step of the event loop on
\* a qualifying event records it and every scan dispatches every settled
\* path: neither loop waits for a callback to return.
C22_SlowCallbackNeverBlocks ==
    /\ []((\E q \in EventNames : Running(q)) =>
            /\ (started /\ now < MaxTicks * TickMs) => ENABLED Tick
            /\ \A name \in {PathA, PathB} :
                  (evLoop = "running" /\ ~closed /\ nEv < MaxEvents
                      /\ Dir(name) \in watched)
                     => ENABLED FsEvent(name, {"Write"}))
    /\ [][/\ \A name \in {PathA, PathB} :
                FsEvent(name, {"Write"})
                   => /\ name \in DOMAIN pendingFiles'
                      /\ pendingFiles'[name] = now
          /\ (now' # now /\ scanLoop = "running")
                => \A q \in DOMAIN pendingFiles :
                      IF now' - pendingFiles[q] >= DebounceMs
                      THEN nCb'[q] = nCb[q] + 1 /\ q \notin DOMAIN pendingFiles'
                      ELSE nCb'[q] = nCb[q]
          /\ \A q \in EventNames :
                nRet'[q] # nRet[q] => UNCHANGED <<pendingFiles, nCb, now>>]_vars

\* C22 witness: the callbacks of both log files are running, and the first
\* file has been recorded again, in a new burst, after the scan that
\* dispatched the second.
C22_Witness ==
    /\ nCb[PathA] = 1 /\ Running(PathA)
    /\ nCb[PathB] = 1 /\ Running(PathB)
    /\ nBursts[PathB] = 1
    /\ PathA \in DOMAIN pendingFiles
    /\ pendingFiles[PathA] >= lastEv[PathB] + DebounceMs
    /\ nBursts[PathA] = 2

\* the line a reader is at parses to an entry
Parses(line) == line.kind = "json"

\* C23: within one invocation the entries are handed over in the order of
\* their lines.  The scan starts before the first line and moves one line
\* at a time, and only while no ProcessMessage of this reader is running;
\* a step that starts ProcessMessage starts it for the line moved to; and a
\* running ProcessMessage is the one of the current line.  Hence the call for
\* line i has returned before the call for a later line j starts.
C23_LinesInOrder ==
    /\ [](\A u \in Readers :
            /\ pcf[u].pc \in {"idle", "session", "open"} => pcf[u].line = 0
            /\ (pcf[u].pc = "scan" /\ rd[u].pc # "idle")
                  => /\ pcf[u].line \in 1..Len(FileContent(pcf[u].path))
                     /\ Parses(FileContent(pcf[u].path)[pcf[u].line])
                     /\ rd[u].entry = FileContent(pcf[u].path)[pcf[u].line].entry)
    /\ [][\A u \in Readers :
            /\ (pcf[u].pc = "scan" /\ pcf'[u].pc = "scan"
                   /\ pcf'[u].line # pcf[u].line)
                  => /\ pcf'[u].line = pcf[u].line + 1
                     /\ rd[u].pc = "idle"
                     /\ Parses(FileContent(pcf[u].path)[pcf'[u].line])
                           => LET frame ==
                                     IF rd'[u].pc = "idle" THEN lastPM' ELSE rd'[u]
                              IN /\ frame.entry
                                       = FileContent(pcf[u].path)[pcf'[u].line].entry
                                 /\ frame.sessionID = pcf[u].sessionID
            /\ (rd[u].pc = "idle" /\ rd'[u].pc # "idle")
                  => (pcf[u].pc = "scan" /\ pcf'[u].line = pcf[u].line + 1)]_vars

\* C23 witness: a reader of the first log is inside ProcessMessage for its
\* third line, the second entry; the entry of the first line was processed.
C23_Witness ==
    /\ pcf[Reader(1)].path = PathA
    /\ pcf[Reader(1)].line = 3
    /\ rd[Reader(1)].pc = "send"
    /\ rd[Reader(1)].entry.uuid = "m2"
    /\ inserted["m1"] = 1
    /\ counted["m1"] = 1

\* the ids of the events enqueued so far
EnqueuedIds == {enqLog[i].id : i \in 1..Len(enqLog)}

\* C24: incremental extraction through the ledger.  Every invocation starts
\* before the first line of the file.  An event is enqueued only for the
\* entry of the line the reader is at, and only if no event with its id was
\* enqueued before: nothing for a line processed before, and nothing at all
\* once every qualifying entry of the file has its event.  When an invocation
\* returns at the end of the file, each qualifying entry of the file, the
\* appended ones included, has exactly one event.
C24_IncrementalThroughLedger ==
    /\ [](pcf[LiveReader].pc \in {"session", "open"} => pcf[LiveReader].line = 0)
    /\ [][/\ enqLog' # enqLog
                => /\ Len(enqLog') = Len(enqLog) + 1
                   /\ pcf[LiveReader].pc = "scan"
                   /\ rd[LiveReader].pc = "send"
                   /\ rd[LiveReader].entry
                         = FileContent(PathA)[pcf[LiveReader].line].entry
                   /\ enqLog'[Len(enqLog')].id = rd[LiveReader].entry.uuid
                   /\ rd[LiveReader].entry.uuid \notin EnqueuedIds
          /\ QualifyingIds(PathA) \subseteq EnqueuedIds => enqLog' = enqLog
          /\ (Returns(LiveReader) /\ lastRet' = "eof")
                => /\ EnqueuedIds = QualifyingIds(PathA)
                   /\ \A id \in QualifyingIds(PathA) : EnqCount(id) = 1]_vars

\* C24 witness: the log was processed, lines were appended to it, and a
\* later invocation has returned at the end of the file: the two entries
\* of the first pass and the two new appended entries have one event each.
C24_Witness ==
    /\ disk.appended = "after"
    /\ pcf[LiveReader].pc = "idle"
    /\ rd[LiveReader].pc = "idle"
    /\ lastRet = "eof"
    /\ Len(enqLog) = 4
    /\ EnqueuedIds = {"m1", "m2", "m4", "m5"}
    /\ inserted["m2"] = 1

\* C25: a file deleted under a pending debounce entry.  Neither the
\* deletion nor the remove event touches pendingFiles, and the scan
\* dispatches the settled path whether or not the file exists.  The reader
\* invoked on a file that cannot be opened returns from os.Open: up to there
\* an invocation changes only the session map, so no id is added to the
\* ledger, no counter changes and no event is enqueued; the call has no
\* result, and no step of the reader changes the watcher, whose loops run on.
C25_DeletedFileIsZeroLines ==
    [][/\ (disk'.gone # disk.gone \/ FsEvent(PathA, {"Remove"}))
             => UNCHANGED <<pendingFiles, nCb>>
       /\ (/\ now' # now
           /\ scanLoop = "running"
           /\ PathA \in DOMAIN pendingFiles
           /\ now' - pendingFiles[PathA] >= DebounceMs)
             => /\ nCb'[PathA] = nCb[PathA] + 1
                /\ PathA \notin DOMAIN pendingFiles'
       /\ (pcf[LiveReader].pc = "open" /\ pcf'[LiveReader] # pcf[LiveReader]
              /\ disk.gone # "no")
             => /\ pcf'[LiveReader] = IdleFile
                /\ lastRet' = "open_failed"
       /\ (pcf[LiveReader].pc # "scan" /\ pcf'[LiveReader].pc # "scan")
             => UNCHANGED <<processedMessages, messageCount, inserted, counted,
                            rd, clientVars>>
       /\ pcf'[LiveReader] # pcf[LiveReader] => UNCHANGED watcherVars]_vars

\* C25 witness: the log was deleted while its debounce entry was pending,
\* was dispatched all the same, and the reader has returned from the failed
\* os.Open with nothing processed, counted or enqueued and both loops of the
\* watcher running.
C25_Witness ==
    /\ disk.gone = "pending"
    /\ nCb[PathA] = 1
    /\ lastRet = "open_failed"
    /\ pcf[LiveReader].pc = "idle"
    /\ PathA \in DOMAIN conversationSessions
    /\ processedMessages = {}
    /\ messageCount = [user |-> 0, assistant |-> 0]
    /\ enqLog = <<>>
    /\ evLoop = "running" /\ scanLoop = "running"

\* C29: history replay and live watching share one ledger and one
\* processing path.  The events enqueued when ProcessExistingHistory
\* returns are those of the replay; no id among them, and no id at all, has
\* a second event later, and after the replay an event is enqueued only by
\* a callback of the watcher, for the entry of the line its reader is at.
\* When a callback's reader returns at the end of the file, every qualifying
\* entry has one event, and the entries that the replay did not forward
\* have theirs from the live path.
C29_ReplayAndLiveShareLedger ==
    /\ [](/\ ~replayDone => (nReplay = 0 /\ ~started)
          /\ replayDone => nReplay <= Len(enqLog)
          /\ \A i, j \in 1..Len(enqLog) :
                i < j => enqLog[i].id # enqLog[j].id)
    /\ [][/\ replayDone' # replayDone
                => /\ nReplay' = Len(enqLog)
                   /\ pcf[LiveReader].pc = "idle" /\ rd[LiveReader].pc = "idle"
          /\ (replayDone /\ enqLog' # enqLog)
                => /\ nCb[PathA] > 0
                   /\ pcf[LiveReader].path = PathA
                   /\ enqLog'[Len(enqLog')].id
                         = FileContent(PathA)[pcf[LiveReader].line].entry.uuid
          /\ (replayDone /\ Returns(LiveReader) /\ lastRet' = "eof")
                => \A id \in QualifyingIds(PathA) :
                      \E i \in 1..Len(enqLog) :
                         /\ enqLog[i].id = id
                         /\ i > nReplay <=>
                               \A k \in 1..nReplay : enqLog[k].id # id]_vars

\* C29 witness: the replay forwarded the two entries of the log, lines were
\* appended afterwards, the watcher dispatched the log, and the callback's
\* reader has returned with the two new entries forwarded after those of
\* the replay.
C29_Witness ==
    /\ replayDone
    /\ nReplay = 2
    /\ started
    /\ nCb[PathA] = 1
    /\ disk.appended = "after"
    /\ pcf[LiveReader].pc = "idle"
    /\ lastRet = "eof"
    /\ Len(enqLog) = 4
    /\ enqLog[1].id = "m1" /\ enqLog[2].id = "m2"
    /\ enqLog[3].id = "m4" /\ enqLog[4].id = "m5"
    /\ inserted["m1"] = 1 /\ inserted["m2"] = 1

\* C26: every qualifying entry maps to exactly one event of the right
\* shape.  A step that ends the last part of ProcessMessage enqueues exactly
\* one event, for the entry of the reader's line: for a user entry a
\* trace-create event, by CreateTrace, with the entry's id and the session
\* id of the file; for an assistant entry a generation-create event, by
\* CreateGeneration, with the entry's id, the entry's parent id as trace id
\* and equal start and end times.  No id has two events, and an id in the
\* ledger whose call has returned has one.
C26_EntryMapsToOneEvent ==
    /\ [](\A id \in AllUUIDs :
            /\ EnqCount(id) <= 1
            /\ (id \in processedMessages /\ rd[LiveReader].entry.uuid # id)
                  => EnqCount(id) = 1)
    /\ [][/\ (rd[LiveReader].pc = "send" /\ rd'[LiveReader].pc # "send")
                => Len(enqLog') = Len(enqLog) + 1
          /\ enqLog' # enqLog
                => LET e == rd[LiveReader].entry
                       ev == enqLog'[Len(enqLog')]
                   IN /\ rd[LiveReader].pc = "send"
                      /\ enqLog' = Append(enqLog, ev)
                      /\ events' = Append(events, ev)
                      /\ e = FileContent(PathA)[pcf[LiveReader].line].entry
                      /\ e.type \in {"user", "assistant"}
                      /\ ev.id = e.uuid
                      /\ e.type = "user"
                            => /\ ev.type = "trace-create"
                               /\ ret'.op = "CreateTrace"
                               /\ ev.sessionId = conversationSessions[PathA]
                               /\ ev.sessionId = pcf[LiveReader].sessionID
                      /\ e.type = "assistant"
                            => /\ ev.type = "generation-create"
                               /\ ret'.op = "CreateGeneration"
                               /\ ev.traceId = e.parentUuid
                               /\ ev.startTime = ev.endTime
                               /\ ev.startTime # ""]_vars

\* C26 witness: the four qualifying entries of the log have their events:
\* traces for the user entries, with the session id of the file, and
\* generations for the assistant entries under their parents' ids, the last
\* one stamped with the clock because its timestamp does not parse.
C26_Witness ==
    /\ Len(enqLog) = 4
    /\ enqLog[1].type = "trace-create" /\ enqLog[1].id = "m1"
    /\ enqLog[1].sessionId = conversationSessions[PathA]
    /\ enqLog[2].type = "generation-create" /\ enqLog[2].id = "m2"
    /\ enqLog[2].traceId = "m1" /\ enqLog[2].startTime = "T1"
    /\ enqLog[3].type = "trace-create" /\ enqLog[3].id = "m4"
    /\ enqLog[4].type = "generation-create" /\ enqLog[4].id = "m5"
    /\ enqLog[4].traceId = "m4"
    /\ enqLog[4].startTime = TimeNow /\ enqLog[4].endTime = TimeNow

\* the parts that the blocks of a content array produce, by the type of
\* each block
ClaimedParts(blocks) ==
    LET part(b) ==
           IF b.type = "tool_use"
           THEN <<"[", "T", "o", "o", "l", ":", " ">> \o b.name \o <<"]", LF>>
                   \o (IF b.input = "none" THEN NoText ELSE Indented(b.input))
           ELSE IF b.type = "tool_result" THEN b.content
           ELSE b.text
        kept == {k \in 1..Len(blocks) :
                    blocks[k].type = "tool_use" \/ part(blocks[k]) # NoText}
        RECURSIVE from(_)
        from(k) == IF k > Len(blocks) THEN << >>
                   ELSE (IF k \in kept THEN <<part(blocks[k])>> ELSE << >>)
                           \o from(k + 1)
    IN from(1)

\* the text that the fixed precedence gives for a payload
ClaimedText(raw) ==
    IF raw.kind = "string" THEN raw.s
    ELSE IF raw.kind = "object" /\ raw.content.kind = "array"
            /\ ClaimedParts(raw.content.blocks) # << >>
    THEN Join(ClaimedParts(raw.content.blocks), <<LF, LF>>)
    ELSE IF raw.kind = "object" THEN raw.text
    ELSE NoText

\* C27: content extraction is total and follows a fixed precedence: a bare
\* string is returned verbatim; otherwise the parts of the blocks of a
\* non-empty content array, joined with a blank line, if there is at least
\* one part; otherwise the flat text field; otherwise the empty text.
C27_ExtractionPrecedence ==
    text # Unset => text = ClaimedText(rawMessage)

\* C28: Flush on an empty buffer is a no-op success.  Whenever the ticker
\* goroutine or the shutdown path calls Flush with nothing buffered, the
\* call returns nil in the same step without a request: no POST is started,
\* the buffer stays empty and nothing is recorded as accepted.
C28_EmptyFlushIsNoOp ==
    [][\A u \in {TimerUnit, MainUnit} :
          (Flush(u) /\ events = << >>)
             => /\ events' = << >>
                /\ call'[u].st = "idle"
                /\ cmu' = NoUnit
                /\ ret'.unit = u /\ ret'.op = "Flush"
                /\ ~ret'.err
                /\ ret'.nposts = 0
                /\ ret'.outcome = NoOutcome
                /\ accepted' = accepted
                /\ u = MainUnit => finalRet' = "nil"]_vars

\* C28 witness: with nothing ever enqueued, the shutdown path has made its
\* final flush, which returned nil, and the ticker goroutine has flushed
\* after it, also without a request.
C28_Witness ==
    /\ enqLog = << >>
    /\ events = << >>
    /\ nFinal = 1
    /\ finalRet = "nil"
    /\ ret.unit = TimerUnit
    /\ ret.op = "Flush"
    /\ ret.nposts = 0
    /\ ~ret.err
    /\ accepted = << >>

\* the events of a sequence have pairwise different ids
DistinctIds(seq) ==
    \A i, j \in 1..Len(seq) : i # j => seq[i].id # seq[j].id

\* C30: the outbound buffer never holds two events with the same id, and
\* the batches the endpoint has answered with success hold each id at most
\* once between them, whatever the interleaving of the readers, their
\* enqueues and the failed and successful flushes.
C30_NoDuplicateIds ==
    /\ DistinctIds(events)
    /\ DistinctIds(accepted)

\* C30 witness: the two logs that hold the entry m1 have both been read to
\* the end; the flush of m1 was accepted, m2 was enqueued after it and its
\* flush has failed, so m2 is still buffered; each id was enqueued once.
C30_Witness ==
    /\ {PathA, PathSub} \subseteq DOMAIN conversationSessions
    /\ lastRet = "eof"
    /\ AllIdle
    /\ Len(accepted) = 1
    /\ accepted[1].id = "m1"
    /\ Len(events) = 1
    /\ events[1].id = "m2"
    /\ Len(enqLog) = 2
    /\ ret.unit = TimerUnit
    /\ ret.err

\* the line of a log that holds the entry with the given id first
LineOf(filepath, id) ==
    LET file == FileContent(filepath)
    IN CHOOSE k \in 1..Len(file) :
          /\ Parses(file[k]) /\ file[k].entry.uuid = id
          /\ \A j \in 1..(k - 1) : ~(Parses(file[j]) /\ file[j].entry.uuid = id)

\* C31: the events that originate from one log are appended to the outbound
\* buffer in the order of their lines in the log, also when two invocations
\* of the reader for that log overlap.
C31_FileOrderInBuffer ==
    \A i, j \in 1..Len(enqLog) :
        i < j => LineOf(PathA, enqLog[i].id) < LineOf(PathA, enqLog[j].id)

\* C32: once Close has returned, the debounce loop hands no further path to
\* the callback: from then on the number of dispatches of every path stays
\* as it is.
C32_NoDispatchAfterClose ==
    [][closed => nCb' = nCb]_vars

\* C33: shutdown drains completely.  Once the shutdown path has closed the
\* watcher and its final flush has returned nil, the outbound buffer is
\* empty, and it stays empty until the command returns: no callback
\* enqueues an event after the final flush.
C33_ShutdownDrains ==
    (closed /\ finalRet = "nil") => events = << >>

\* the sum of the two counters that MessageStats returns
CounterSum == messageCount.user + messageCount.assistant

\* a ProcessMessage call is in flight
PMInFlight == \E u \in Readers : rd[u].pc # "idle"

\* C34: the sum of the user and the assistant counter is at most the number
\* of ids in processedMessages, and the two are equal whenever no
\* ProcessMessage call is in flight.
C34_CountersMatchLedger ==
    /\ CounterSum <= Cardinality(processedMessages)
    /\ ~PMInFlight => CounterSum = Cardinality(processedMessages)

\* C34 witness: a user entry has been counted, and the call for an assistant
\* entry is between its two critical sections: its id is in the ledger and
\* not yet in a counter, while no unit holds the lock.
C34_Witness ==
    /\ \E u \in Readers : rd[u].pc = "count" /\ rd[u].entry.type = "assistant"
    /\ mmu = NoUnit
    /\ messageCount.user = 1
    /\ messageCount.assistant = 0
    /\ Cardinality(processedMessages) = 2

\* C35: the bound on the buffer.  A CreateTrace or CreateGeneration that
\* returned nil left fewer than BatchSize events in the buffer; between the
\* calls of the client the buffer holds BatchSize events or more only when
\* the call that returned last made a flush attempt that failed; and while
\* it does, every further enqueue appends its event to the events already
\* there (none is dropped) and posts the whole buffer again, and a failed
\* attempt leaves the buffer as it is.
C35_BufferLengthBound ==
    /\ []((ret.op \in CreateOps /\ ~ret.err) => ret.after < BatchSize)
    /\ []((cmu = NoUnit /\ Len(events) >= BatchSize)
             => (ret.err /\ ret.nposts = 1 /\ FlushFailed(ret.outcome)))
    /\ [][/\ \A u \in Callers :
                ((CreateTrace(u) \/ CreateGeneration(u)) /\ Len(events) >= BatchSize)
                    => /\ Len(events') = Len(events) + 1
                       /\ SubSeq(events', 1, Len(events)) = events
                       /\ call'[u].st = "post"
                       /\ call'[u].batch = events'
          /\ \A u \in ClientUnits, o \in Outcomes :
                (HttpReturns(u, o) /\ FlushFailed(o)) => events' = events]_vars

\* C35 witness: the auto-flush of the tenth enqueue has failed, and so has
\* the one of the eleventh, which has just returned its error: the buffer
\* holds eleven events.
C35_Witness ==
    /\ Len(events) = BatchSize + 1
    /\ cmu = NoUnit
    /\ ret.op \in CreateOps
    /\ ret.n = BatchSize + 1
    /\ ret.err
    /\ accepted = << >>

\* C36: an error returned by an enqueue never means that the event was
\* dropped.  Every CreateTrace or CreateGeneration appends its event to the
\* buffer before anything else, so that a POST it starts carries the event
\* as its last one; when that POST fails and the call returns its error the
\* buffer is as the call left it, with the event as its last element; and
\* every POST that is started carries the whole buffer, so the next flush
\* carries the event.
C36_ErrorKeepsEvent ==
    [][/\ \A u \in Callers :
             (CreateTrace(u) \/ CreateGeneration(u))
                 => /\ events' = Append(events, enqLog'[Len(enqLog')])
                    /\ Len(enqLog') = Len(enqLog) + 1
       /\ \A u \in Callers, o \in Outcomes :
             (HttpReturns(u, o) /\ FlushFailed(o) /\ call[u].op \in CreateOps)
                 => /\ ret'.unit = u /\ ret'.err
                    /\ events' = events
                    /\ events' = call[u].batch
                    /\ events'[Len(events')] = enqLog[Len(enqLog)]
       /\ \A u \in ClientUnits :
             (call[u].st = "idle" /\ call'[u].st = "post")
                 => call'[u].batch = events']_vars

\* C36 witness: the tenth enqueue has returned the error of its auto-flush,
\* and the ticker's flush that followed is posting all ten events, the
\* tenth among them.
C36_Witness ==
    /\ ret.unit \in Callers
    /\ ret.op \in CreateOps
    /\ ret.err
    /\ ret.n = BatchSize
    /\ call[TimerUnit].st = "post"
    /\ call[TimerUnit].batch = events
    /\ Len(events) = BatchSize
    /\ events[BatchSize] = enqLog[BatchSize]

C38_DebounceLiveness ==
    /\ \A q \in EventNames : Pending(q) ~> (~Pending(q) /\ nCb[q] >= 1)
    /\ <>[](DOMAIN pendingFiles = {})
    /\ [][\A q \in EventNames :
             nCb'[q] # nCb[q]
                 => /\ now' - lastEv[q] >= DebounceMs
                    /\ now - lastEv[q] < DebounceMs]_vars

\* C38 witness: the events on the first log kept resetting its timer, the
\* last of them as late as the model allows; both logs were dispatched once
\* their windows had passed, and the pending set is empty.
C38_Witness ==
    /\ reset[PathA]
    /\ lastEv[PathA] + DebounceMs = MaxTicks * TickMs
    /\ nCb[PathA] = 1
    /\ nCb[PathB] = 1
    /\ DOMAIN pendingFiles = {}

\* the locks a unit holds
HoldsW(u) == wmu = u
HoldsM(u) == mmu = u
HoldsC(u) == cmu = u

\* C39: deadlock freedom.  No unit holds two of the three locks: the loops
\* of the watcher hold only w.mu, and a callback, the flush ticker or the
\* shutdown path that holds c.mu, or is about to ask for it, does not hold
\* m.mu (nor does a unit that holds m.mu have a call into the client under
\* way).  A unit that holds a lock never waits: the step that ends its
\* critical section (the record or the scan under w.mu; the session lookup,
\* the dedup check or the counter increment under m.mu; the return of the
\* POST under c.mu) is enabled, so no state has units waiting on each
\* other's locks.  (The session lookup has no condition but the unit's
\* position, which is written out.)
C39_DeadlockFreedom ==
    /\ wmu \in {NoUnit, EventsUnit, ScanUnit}
    /\ \A u \in {EventsUnit, ScanUnit} : ~HoldsM(u) /\ ~HoldsC(u)
    /\ \A u \in Units :
          /\ ~(HoldsM(u) /\ HoldsC(u))
          /\ HoldsM(u) => call[u].st = "idle"
    /\ \A u \in PipelineReaders :
          rd[u].pc \in {"send", "post"} => ~HoldsM(u)
    /\ HoldsW(EventsUnit) => ENABLED EventsRecord
    /\ HoldsW(ScanUnit) => ENABLED ScanDispatch
    /\ \A u \in PipelineReaders :
          HoldsM(u) => \/ pcf[u].pc = "session" /\ rd[u].pc = "idle"
                       \/ ENABLED (PMDedup(u) \/ PMCount(u))
    /\ \A u \in Units :
          HoldsC(u) => ENABLED (\E o \in Outcomes : HttpReturns(u, o))

\* C39 witness: the three locks are held at once by three units: the scan
\* loop holds w.mu, one callback holds m.mu, the flush ticker holds c.mu
\* for its POST, and the other callback is about to ask for m.mu.
C39_Witness ==
    /\ HoldsW(ScanUnit)
    /\ HoldsM(Reader(1))
    /\ HoldsC(TimerUnit)
    /\ call[TimerUnit].st = "post"
    /\ pcf[Reader(2)].pc = "scan"
    /\ rd[Reader(2)].pc = "idle"

====
